---- MODULE Spec2Model ----
(***************************************************************************)
(* DeepCrawler: the breadth-first crawl engine (crawler/engine.ts), its    *)
(* rules engine, queue, metrics tracker and link extractor, and the job    *)
(* manager (jobs/job-manager.ts) that runs one crawl per job as a          *)
(* background task on the single-threaded JavaScript event loop.           *)
(*                                                                         *)
(* A synchronous run of JavaScript is a sequence of steps taken while      *)
(* `active` names the running task; no other handler interleaves until     *)
(* the run reaches an `await`.                                             *)
(***************************************************************************)
EXTENDS Integers, Sequences, FiniteSets, TLC

\* ------------------------------------------------------------------ bounds
\* raw links on one fetched page, crawl engine alone
MaxLinks == 2
\* largest options.maxDepth / options.maxPages tried, crawl engine alone
MaxDepthOpt == 3
MaxPagesOpt == 3
\* jobs created over the life of one JobManager
MaxJobs == 2
\* raw links on one fetched page, under the JobManager
JobMaxLinks == 1
\* the last value of Date.now() the clock reaches, and the largest maxAgeMs tried
MaxClock == 2
MaxAge == 1
\* slashes ending a path and query parameters of a URL given to normalizeUrl
MaxSlashes == 2
MaxParams == 2
\* input URLs of one batchScrape call, and the largest concurrency tried
MaxBatch == 3
MaxConc == 2
\* lines of a served robots.txt, isAllowed calls on one RobotsChecker, and the
\* hours the clock runs over them
MaxLines == 3
MaxCalls == 2
MaxHours == 1

\* ------------------------------------------------------------------ URLs
\* A URL string is modelled by its parts.  kind: "abs" an absolute URL,
\* "rel" a relative reference, "hash" a fragment-only href, "empty" blank,
\* "bad" a string `new URL` rejects.  tslash counts the slashes that end
\* the path after its last segment; frag says a #fragment is present; port
\* is the port written in the string, 0 when none; query is the sequence of
\* key=value parameters in the order written.
NoIp == <<>>
HostName(n) == [name |-> n, ip |-> NoIp]
HostIp(a, b, c, d) == [name |-> "", ip |-> <<a, b, c, d>>]
NoHost == HostName("")

MkFullUrl(k, s, h, port, p, t, q, f) ==
    [kind |-> k, scheme |-> s, host |-> h, port |-> port, path |-> p, tslash |-> t,
     query |-> q, frag |-> f]

\* a URL string without port and query
MkUrl(k, s, h, p, t, f) == MkFullUrl(k, s, h, 0, p, t, <<>>, f)

HttpUrl(h, p) == MkUrl("abs", "https", h, p, 0, FALSE)
BadUrl == MkUrl("bad", "", NoHost, "", 0, FALSE)
NoUrl == MkUrl("none", "", NoHost, "", 0, FALSE)

\* String.prototype.toLowerCase on the strings the model uses
ToLowerCase(s) ==
    CASE s = "A.COM" -> "a.com"
      [] s = "B.COM" -> "b.com"
      [] s = "Example.COM" -> "example.com"
      [] s = "HTTPS" -> "https"
      [] s = "HTTP" -> "http"
      [] s = "Page" -> "page"
      [] OTHER -> s

\* the default port of a scheme, which the URL parser drops
DefaultPort(scheme) ==
    CASE scheme = "http" -> 80
      [] scheme = "https" -> 443
      [] OTHER -> 0

\* `new URL(url)`: throws unless the string is an absolute URL; the WHATWG
\* parser lowercases the scheme and the host of the URL object it builds and
\* drops a port that is the default of the scheme.
UrlParses(u) == u.kind = "abs"
NewURL(u) ==
    [u EXCEPT !.scheme = ToLowerCase(u.scheme),
              !.host = [name |-> ToLowerCase(u.host.name), ip |-> u.host.ip],
              !.port = IF u.port = DefaultPort(ToLowerCase(u.scheme)) THEN 0 ELSE u.port]

\* `new URL(relative, base)`
ResolveParses(base, href) ==
    /\ UrlParses(base)
    /\ href.kind \in {"abs", "rel", "hash", "empty"}
NewURLBase(base, href) ==
    CASE href.kind = "abs" -> NewURL(href)
      [] href.kind = "rel" ->
            [NewURL(base) EXCEPT !.path = href.path, !.tslash = href.tslash,
                                 !.query = href.query, !.frag = href.frag]
      [] href.kind = "hash" -> [NewURL(base) EXCEPT !.frag = TRUE]
      [] OTHER -> NewURL(base)

\* a[0].localeCompare(b[0]) on the keys the model uses: negative, zero, positive
KeyRank(k) ==
    CASE k = "a" -> 1
      [] k = "b" -> 2
      [] OTHER -> 3
localeCompare(a, b) == KeyRank(a) - KeyRank(b)

\* the entries are left in the order written
sortEntries_Unsorted(q) == q

\* Array.prototype.sort by key, which is stable: an entry goes behind every
\* entry already placed whose key does not compare greater
RECURSIVE insertEntry(_, _)
insertEntry(sorted, e) ==
    IF sorted = <<>> THEN <<e>>
    ELSE IF localeCompare(sorted[Len(sorted)].key, e.key) <= 0 THEN Append(sorted, e)
    ELSE Append(insertEntry(SubSeq(sorted, 1, Len(sorted) - 1), e), sorted[Len(sorted)])

RECURSIVE sortLoop(_, _, _)
sortLoop(q, i, sorted) ==
    IF i > Len(q) THEN sorted ELSE sortLoop(q, i + 1, insertEntry(sorted, q[i]))

sortEntries(q) == sortLoop(q, 1, <<>>)

\* normalizeUrl: lowercase host and protocol, drop ONE trailing slash of a
\* non-root path, drop a default port, sort the query parameters by key,
\* drop the fragment.  Throws when the string does not parse.
normalizeUrl(u) ==
    LET o == NewURL(u)
    IN  [o EXCEPT !.host = [name |-> ToLowerCase(o.host.name), ip |-> o.host.ip],
                  !.scheme = ToLowerCase(o.scheme),
                  !.tslash = IF o.tslash >= 1 THEN o.tslash - 1 ELSE 0,
                  !.port = IF o.port = DefaultPort(ToLowerCase(o.scheme)) THEN 0 ELSE o.port,
                  !.query = IF o.query # <<>> THEN sortEntries(o.query) ELSE o.query,
                  !.frag = FALSE]

resolveUrlThrows(base, href) == ~ResolveParses(base, href)
resolveUrl(base, href) == normalizeUrl(NewURLBase(base, href))

isValidHttpUrl(u) == UrlParses(u) /\ NewURL(u).scheme \in {"http", "https"}

getDomainThrows(u) == ~UrlParses(u)
getDomain(u) == NewURL(u).host

\* ------------------------------------------------------------------ hosts and hrefs of the modelled web
HostA == HostName("a.com")
HostAUpper == HostName("A.COM")
HostB == HostName("b.com")
Loopback == HostIp(127, 0, 0, 1)
Private10 == HostIp(10, 0, 0, 5)

SeedUrl == MkUrl("abs", "https", HostAUpper, "", 0, TRUE)

\* the hrefs a fetched page of the modelled web may carry; priv is the
\* private address this web links to
PrivateHosts == {Loopback, Private10}
Hrefs(priv) == { MkUrl("rel", "", NoHost, "p1", 1, TRUE), MkUrl("abs", "https", HostB, "", 0, FALSE),
                 MkUrl("abs", "https", priv, "", 0, FALSE), MkUrl("abs", "https", HostAUpper, "", 0, TRUE) }

\* the hrefs of the pages fetched under the JobManager
JobHrefs == { MkUrl("rel", "", NoHost, "p1", 1, TRUE) }

\* sequences over S of length at most n
SeqsUpTo(S, n) == UNION { [1..k -> S] : k \in 0..n }

\* ------------------------------------------------------------------ CrawlOptions
Strategies == {"domain", "all"}
MkOptions(u, s, d, p) == [startUrl |-> u, strategy |-> s, maxDepth |-> d, maxPages |-> p]
NoOptions == MkOptions(NoUrl, "domain", 0, 0)
CrawlOptionSet == { MkOptions(u, s, d, p) : u \in {SeedUrl, BadUrl}, s \in Strategies,
                                            d \in 1..MaxDepthOpt, p \in 1..MaxPagesOpt }
\* the options of the jobs created under the JobManager: a two-level crawl of
\* the seed's domain, and an unparsable seed
JobOptionSet == { MkOptions(SeedUrl, "domain", 2, 2), MkOptions(BadUrl, "domain", 2, 2) }
\* the options of the jobs created under the clock: a one-page crawl, and an
\* unparsable seed
CleanupOptionSet == { MkOptions(SeedUrl, "domain", 1, 1), MkOptions(BadUrl, "domain", 1, 1) }

\* ------------------------------------------------------------------ CrawlRules
shouldCrawlDepth(o, depth) == depth < o.maxDepth

hasReachedPageLimit_Strict(o, pagesScraped) == pagesScraped > o.maxPages
hasReachedPageLimit(o, pagesScraped) == pagesScraped >= o.maxPages

isAllowedDomain_Always(o, baseDomain, url) == TRUE

isAllowedDomain(o, baseDomain, url) ==
    IF o.strategy = "all" THEN TRUE
    ELSE IF getDomainThrows(url) THEN FALSE
    ELSE getDomain(url) = baseDomain

isPrivateUrl_LocalhostOnly(url) == UrlParses(url) /\ NewURL(url).host.name = "localhost"

\* hostname === 'localhost' | '127.0.0.1' | '::1', then the IPv4 private ranges
isPrivateUrl(url) ==
    IF ~UrlParses(url) THEN FALSE
    ELSE LET h == NewURL(url).host
             o == h.ip
         IN  \/ h.name \in {"localhost", "::1"}
             \/ o = <<127, 0, 0, 1>>
             \/ /\ Len(o) = 4
                /\ \/ o[1] = 10
                   \/ o[1] = 172 /\ o[2] >= 16 /\ o[2] <= 31
                   \/ o[1] = 192 /\ o[2] = 168
                   \/ o[1] = 169 /\ o[2] = 254

shouldCrawl(o, baseDomain, url, depth, pagesScraped) ==
    /\ shouldCrawlDepth(o, depth)
    /\ ~hasReachedPageLimit(o, pagesScraped)
    /\ isAllowedDomain(o, baseDomain, url)
    /\ ~isPrivateUrl(url)

\* ------------------------------------------------------------------ extractLinks
\* one href of the loop: the link it adds to uniqueLinks, or NoUrl when skipped
extractOne(href, baseUrl) ==
    IF href.kind = "empty" THEN NoUrl
    ELSE IF href.kind = "hash" \/ (href.kind = "abs" /\ href.scheme = "mailto") THEN NoUrl
    ELSE IF resolveUrlThrows(baseUrl, href) THEN NoUrl
    ELSE LET absoluteUrl == resolveUrl(baseUrl, href)
         IN  IF ~isValidHttpUrl(absoluteUrl) THEN NoUrl
             ELSE IF absoluteUrl = normalizeUrl(baseUrl) THEN NoUrl
             ELSE absoluteUrl

RECURSIVE extractLoop(_, _, _, _)
extractLoop(rawLinks, baseUrl, i, uniqueLinks) ==
    IF i > Len(rawLinks) THEN uniqueLinks
    ELSE LET l == extractOne(rawLinks[i], baseUrl)
             seen == \E k \in 1..Len(uniqueLinks) : uniqueLinks[k] = l
         IN  extractLoop(rawLinks, baseUrl, i + 1,
                         IF l = NoUrl \/ seen THEN uniqueLinks ELSE Append(uniqueLinks, l))

extractLinks(rawLinks, baseUrl) == extractLoop(rawLinks, baseUrl, 1, <<>>)

\* ------------------------------------------------------------------ MetricsTracker
NewMetrics == [pagesScraped |-> 0, linksDiscovered |-> 0, errors |-> 0, currentDepth |-> 0]
incrementPagesScrapped(m) == [m EXCEPT !.pagesScraped = @ + 1]
\* the count of the last page replaces the sum
addLinksDiscovered_LastPage(m, count) == [m EXCEPT !.linksDiscovered = count]
addLinksDiscovered(m, count) == [m EXCEPT !.linksDiscovered = @ + count]
incrementErrors(m) == [m EXCEPT !.errors = @ + 1]
updateDepth(m, depth) == IF depth > m.currentDepth THEN [m EXCEPT !.currentDepth = depth] ELSE m

\* ------------------------------------------------------------------ queue items, pages, errors
QueueItem(u, d, parent) == [url |-> u, depth |-> d, parentUrl |-> parent]
NoItem == QueueItem(NoUrl, 0, NoUrl)
PageData_DepthOffByOne(u, links, d, at) == [url |-> u, links |-> links, depth |-> d + 1, scrapedAt |-> at]
PageData(u, links, d, at) == [url |-> u, links |-> links, depth |-> d, scrapedAt |-> at]
CrawlError(u, msg, at) == [url |-> u, error |-> msg, timestamp |-> at]
newItems(links, d, parent) == [k \in 1..Len(links) |-> QueueItem(links[k], d + 1, parent)]
\* the links of every scraped page are enqueued
enqueuesChildren_Always(o, depth) == TRUE
enqueuesChildren(o, depth) == depth + 1 < o.maxDepth

\* ------------------------------------------------------------------ state
Tasks == 1..MaxJobs

VARIABLES
    active,     \* the task whose synchronous run is executing, 0 when none
    task,       \* task[t]: the locals of the crawl() call of task t
    fetchLog,   \* fetchLog[t]: the URLs fetch() was called with, in order
    dequeueLog, \* dequeueLog[t]: the URLs dequeue() has returned, in order
    web,        \* the private address the pages of the crawled web link to
    now,        \* Date.now()
    jobs,       \* JobManager.jobs: the ids that are keys of the map
    job,        \* job[j]: the Job object created for id j (the map holds a reference to it)
    exec,       \* exec[j]: where executeCrawl(j) stands: "none", "await", "done"
    creating,   \* the id whose createJob call has not returned yet, 0 when none
    nextId,     \* the next job id generateJobId hands out
    cleaned,    \* what the last cleanupOldJobs call returned, 0 before any call
    held,       \* the Job value a caller got from the JobManager and then wrote to
    norm,       \* the URLs given to normalizeUrl and what it returned for them
    batch,      \* the locals of one batchScrape call and of its processWithConcurrency
    robots,     \* the RobotsChecker: its cache, the robots.txt the origin serves, one isAllowed call
    ruled       \* one CrawlRules object and the shouldCrawl call made on it

crawlVars == <<active, task, fetchLog, dequeueLog, web, now>>
jobVars == <<jobs, job, exec, creating, nextId>>
\* state of the operations beside the crawl loop and the life of a job
sideVars == <<cleaned, held, norm, batch, robots, ruled>>
vars == <<active, task, fetchLog, dequeueLog, web, now, jobs, job, exec, creating, nextId, sideVars>>

\* lines 131-149: the CrawlResult crawl() returns; jobId '' is 0 here
CrawlResult(m, errors, pages) ==
    [jobId |-> 0, pagesScraped |-> m.pagesScraped, linksDiscovered |-> m.linksDiscovered,
     errors |-> errors, pages |-> pages]

\* locals of crawl() before the call
IdleTask ==
    [pc |-> "idle", options |-> NoOptions, baseDomain |-> NoHost, queue |-> <<>>,
     visited |-> {}, pages |-> <<>>, errors |-> <<>>, metrics |-> NewMetrics,
     current |-> NoItem, result |-> CrawlResult(NewMetrics, <<>>, <<>>), error |-> ""]

CalledTask(o) == [IdleTask EXCEPT !.pc = "start", !.options = o]

\* ------------------------------------------------------------------ crawl()
\* an unparsable start URL is let through instead of throwing
CrawlStart_NoThrow(t) ==
    /\ active = t
    /\ task[t].pc = "start"
    /\ task' = [task EXCEPT ![t].pc = "loop",
                            ![t].baseDomain = getDomain(task[t].options.startUrl),
                            ![t].queue = <<QueueItem(task[t].options.startUrl, 0, NoUrl)>>]
    /\ active' = t
    /\ UNCHANGED <<fetchLog, dequeueLog, web, now, sideVars>>

\* lines 20-32: construct the rules (getDomain of the raw start URL), normalize
\* and enqueue the start URL; either constructor throwing rejects the promise.
CrawlStart(t) ==
    /\ active = t
    /\ task[t].pc = "start"
    /\ LET o == task[t].options
       IN  IF getDomainThrows(o.startUrl) \/ ~UrlParses(o.startUrl)
           THEN /\ task' = [task EXCEPT ![t].pc = "rejected", ![t].error = "Invalid URL"]
                /\ active' = 0
           ELSE /\ task' = [task EXCEPT ![t].pc = "loop",
                                        ![t].baseDomain = getDomain(o.startUrl),
                                        ![t].queue = <<QueueItem(normalizeUrl(o.startUrl), 0, NoUrl)>>]
                /\ active' = t
    /\ UNCHANGED <<fetchLog, dequeueLog, web, now, sideVars>>

alreadyVisited_Never(visited, url) == FALSE

\* line 49: visited.has(url)
alreadyVisited(visited, url) == url \in visited

\* the loop does not end on an empty queue: it tests the queue again
CrawlDequeue_SpinsOnEmpty(t) ==
    /\ active = t
    /\ task[t].pc = "loop"
    /\ IF task[t].queue = <<>>
       THEN UNCHANGED <<task, dequeueLog>>
       ELSE LET item == Head(task[t].queue)
            IN  /\ dequeueLog' = [dequeueLog EXCEPT ![t] = Append(@, item.url)]
                /\ IF alreadyVisited(task[t].visited, item.url)
                   THEN task' = [task EXCEPT ![t].queue = Tail(@)]
                   ELSE task' = [task EXCEPT ![t].queue = Tail(@),
                                             ![t].visited = @ \cup {item.url},
                                             ![t].current = item,
                                             ![t].pc = "rules"]
    /\ UNCHANGED <<active, fetchLog, web, now, sideVars>>

\* lines 42-54: loop test, dequeue, visited check, mark visited
CrawlDequeue(t) ==
    /\ active = t
    /\ task[t].pc = "loop"
    /\ IF task[t].queue = <<>>
       THEN /\ task' = [task EXCEPT ![t].pc = "finish"]
            /\ UNCHANGED dequeueLog
       ELSE LET item == Head(task[t].queue)
            IN  /\ dequeueLog' = [dequeueLog EXCEPT ![t] = Append(@, item.url)]
                /\ IF alreadyVisited(task[t].visited, item.url)
                   THEN task' = [task EXCEPT ![t].queue = Tail(@)]
                   ELSE task' = [task EXCEPT ![t].queue = Tail(@),
                                             ![t].visited = @ \cup {item.url},
                                             ![t].current = item,
                                             ![t].pc = "rules"]
    /\ UNCHANGED <<active, fetchLog, web, now, sideVars>>

\* lines 56-72: rules check, depth metric, then the fetch is issued and awaited
CrawlCheckRules(t) ==
    /\ active = t
    /\ task[t].pc = "rules"
    /\ LET c == task[t].current
           o == task[t].options
       IN  IF ~shouldCrawl(o, task[t].baseDomain, c.url, c.depth, task[t].metrics.pagesScraped)
           THEN /\ task' = [task EXCEPT ![t].pc = "loop"]
                /\ UNCHANGED <<active, fetchLog>>
           ELSE /\ task' = [task EXCEPT ![t].pc = "fetch",
                                        ![t].metrics = updateDepth(@, c.depth)]
                /\ fetchLog' = [fetchLog EXCEPT ![t] = Append(@, c.url)]
                /\ active' = 0
    /\ UNCHANGED <<dequeueLog, web, now, sideVars>>

\* a raw link that does not resolve fails the whole page
CrawlPageScraped_BadLinkRaises(t, rawLinks) ==
    /\ active = 0
    /\ task[t].pc = "fetch"
    /\ isValidHttpUrl(task[t].current.url)
    /\ LET c == task[t].current
           links == extractLinks(rawLinks, c.url)
       IN  IF \E k \in 1..Len(rawLinks) : resolveUrlThrows(c.url, rawLinks[k])
           THEN task' = [task EXCEPT
                    ![t].errors = Append(@, CrawlError(c.url, "Invalid URL", now)),
                    ![t].metrics = incrementErrors(@),
                    ![t].pc = "limit"]
           ELSE task' = [task EXCEPT
                    ![t].pages = Append(@, PageData(c.url, links, c.depth, now)),
                    ![t].metrics = addLinksDiscovered(incrementPagesScrapped(@), Len(links)),
                    ![t].queue = IF enqueuesChildren(task[t].options, c.depth)
                                 THEN @ \o newItems(links, c.depth, c.url)
                                 ELSE @,
                    ![t].pc = "limit"]
    /\ active' = t
    /\ UNCHANGED <<fetchLog, dequeueLog, web, now, sideVars>>

\* the new items are put in front of the queue
CrawlPageScraped_Prepend(t, rawLinks) ==
    /\ active = 0
    /\ task[t].pc = "fetch"
    /\ isValidHttpUrl(task[t].current.url)
    /\ LET c == task[t].current
           links == extractLinks(rawLinks, c.url)
       IN  task' = [task EXCEPT
                ![t].pages = Append(@, PageData(c.url, links, c.depth, now)),
                ![t].metrics = addLinksDiscovered(incrementPagesScrapped(@), Len(links)),
                ![t].queue = IF enqueuesChildren(task[t].options, c.depth)
                             THEN newItems(links, c.depth, c.url) \o @
                             ELSE @,
                ![t].pc = "limit"]
    /\ active' = t
    /\ UNCHANGED <<fetchLog, dequeueLog, web, now, sideVars>>

\* lines 74-107: the fetch resolved and the page parsed to rawLinks
CrawlPageScraped(t, rawLinks) ==
    /\ active = 0
    /\ task[t].pc = "fetch"
    /\ isValidHttpUrl(task[t].current.url)
    /\ LET c == task[t].current
           links == extractLinks(rawLinks, c.url)
       IN  task' = [task EXCEPT
                ![t].pages = Append(@, PageData(c.url, links, c.depth, now)),
                ![t].metrics = addLinksDiscovered(incrementPagesScrapped(@), Len(links)),
                ![t].queue = IF enqueuesChildren(task[t].options, c.depth)
                             THEN @ \o newItems(links, c.depth, c.url)
                             ELSE @,
                ![t].pc = "limit"]
    /\ active' = t
    /\ UNCHANGED <<fetchLog, dequeueLog, web, now, sideVars>>

\* the failure escapes the loop: the promise of crawl() rejects
CrawlPageFailed_Abort(t, msg) ==
    /\ active = 0
    /\ task[t].pc = "fetch"
    /\ task' = [task EXCEPT ![t].pc = "rejected", ![t].error = msg]
    /\ active' = 0
    /\ UNCHANGED <<fetchLog, dequeueLog, web, now, sideVars>>

\* the failure is counted but no entry is pushed to errors
CrawlPageFailed_Silent(t, msg) ==
    /\ active = 0
    /\ task[t].pc = "fetch"
    /\ task' = [task EXCEPT ![t].metrics = incrementErrors(@), ![t].pc = "limit"]
    /\ active' = t
    /\ UNCHANGED <<fetchLog, dequeueLog, web, now, sideVars>>

\* lines 108-119: fetch rejected or parse threw
CrawlPageFailed(t, msg) ==
    /\ active = 0
    /\ task[t].pc = "fetch"
    /\ task' = [task EXCEPT
            ![t].errors = Append(@, CrawlError(task[t].current.url, msg, now)),
            ![t].metrics = incrementErrors(@),
            ![t].pc = "limit"]
    /\ active' = t
    /\ UNCHANGED <<fetchLog, dequeueLog, web, now, sideVars>>

\* lines 121-128: page limit check at the end of an iteration
CrawlCheckLimit(t) ==
    /\ active = t
    /\ task[t].pc = "limit"
    /\ task' = [task EXCEPT ![t].pc =
            IF hasReachedPageLimit(task[t].options, task[t].metrics.pagesScraped)
            THEN "finish" ELSE "loop"]
    /\ UNCHANGED <<active, fetchLog, dequeueLog, web, now, sideVars>>

\* lines 131-149: build the CrawlResult and resolve
CrawlReturn(t) ==
    /\ active = t
    /\ task[t].pc = "finish"
    /\ task' = [task EXCEPT ![t].pc = "resolved",
                            ![t].result = CrawlResult(task[t].metrics, task[t].errors, task[t].pages)]
    /\ active' = 0
    /\ UNCHANGED <<fetchLog, dequeueLog, web, now, sideVars>>

FailureMessages == {"Failed to fetch", "Failed to parse HTML"}

\* ------------------------------------------------------------------ the engine alone: one crawl(options) call
\* a Job object; endTime 0, result <<>> and error "" stand for undefined
NoJob ==
    [id |-> 0, status |-> "none", startTime |-> 0, endTime |-> 0, options |-> NoOptions,
     metrics |-> NewMetrics, result |-> <<>>, error |-> ""]

\* no call of normalizeUrl made: a the URL, na = normalizeUrl(a),
\* nna = normalizeUrl(na), b a second URL, nb = normalizeUrl(b)
NormIdle == [a |-> NoUrl, na |-> NoUrl, nna |-> NoUrl, b |-> NoUrl, nb |-> NoUrl]

\* what scrapeSingleUrl resolves to: success with the page, or the error
Outcome(ok, u, at) == [success |-> ok, url |-> u, at |-> at]
NoOutcome == Outcome(FALSE, NoUrl, 0)

\* one operation of the pool: "unstarted", "fetching" (scrapeSingleUrl awaits
\* its fetch), "settled" (scrapeSingleUrl returned), "recorded" (the then
\* callback pushed the outcome), "removed" (the finally callback ran)
NewOp == [st |-> "unstarted", out |-> NoOutcome]

\* no batchScrape call made
BatchIdle ==
    [pc |-> "idle", urls |-> <<>>, concurrency |-> 0, queue |-> <<>>, executing |-> {},
     race |-> {}, op |-> <<>>, results |-> <<>>,
     result |-> [results |-> <<>>, errors |-> <<>>,
                 stats |-> [total |-> 0, success |-> 0, failed |-> 0]]]

\* ------------------------------------------------------------------ RobotsChecker
\* A path and a robots.txt pattern are strings, modelled as the sequence of
\* their pieces: "/private/public" is <<"/", "private", "/", "public">> and
\* "/privateer" is <<"/", "private", "er">>.
PathTokens(p) ==
    CASE p = "" -> <<>>
      [] p = "private" -> <<"private">>
      [] p = "privateer" -> <<"private", "er">>
      [] p = "private/secret" -> <<"private", "/", "secret">>
      [] p = "private/public/x" -> <<"private", "/", "public", "/", "x">>
      [] OTHER -> <<p>>

RECURSIVE Slashes(_)
Slashes(n) == IF n <= 0 THEN <<>> ELSE <<"/">> \o Slashes(n - 1)

RECURSIVE searchParams(_)
searchParams(q) ==
    IF q = <<>> THEN <<>>
    ELSE <<q[1].key, "=", q[1].value>> \o
         (IF Len(q) = 1 THEN <<>> ELSE <<"&">> \o searchParams(Tail(q)))

\* urlObj.pathname + urlObj.search
pathname(u) ==
    IF u.path = "" THEN <<"/">> \o Slashes(u.tslash - 1)
    ELSE <<"/">> \o PathTokens(u.path) \o Slashes(u.tslash)
search(u) == IF u.query = <<>> THEN <<>> ELSE <<"?">> \o searchParams(u.query)

\* String.prototype.startsWith
startsWith(s, prefix) == Len(prefix) <= Len(s) /\ SubSeq(s, 1, Len(prefix)) = prefix

\* a pattern that ends in * matches by the prefix before the *, any other
\* pattern by prefix
matchesPattern(path, pattern) ==
    IF pattern # <<>> /\ pattern[Len(pattern)] = "*"
    THEN startsWith(path, SubSeq(pattern, 1, Len(pattern) - 1))
    ELSE startsWith(path, pattern)

RobotsRule(ua, allow, disallow) == [userAgent |-> ua, allow |-> allow, disallow |-> disallow]

\* the loop over rule.allow: the first matching pattern returns true
RECURSIVE allowLoop(_, _, _)
allowLoop(path, allow, i) ==
    IF i > Len(allow) THEN FALSE
    ELSE IF matchesPattern(path, allow[i]) THEN TRUE
    ELSE allowLoop(path, allow, i + 1)

\* the loop over rule.disallow: an empty pattern is passed over, the first
\* matching pattern returns false
RECURSIVE disallowLoop(_, _, _)
disallowLoop(path, disallow, i) ==
    IF i > Len(disallow) THEN FALSE
    ELSE IF disallow[i] = <<>> THEN disallowLoop(path, disallow, i + 1)
    ELSE IF matchesPattern(path, disallow[i]) THEN TRUE
    ELSE disallowLoop(path, disallow, i + 1)

\* the disallow patterns are tried before the allow patterns
isPathAllowed_DisallowFirst(path, rule) ==
    IF disallowLoop(path, rule.disallow, 1) THEN FALSE ELSE TRUE

isPathAllowed(path, rule) ==
    IF allowLoop(path, rule.allow, 1) THEN TRUE
    ELSE IF disallowLoop(path, rule.disallow, 1) THEN FALSE
    ELSE TRUE

\* one line of a robots.txt body: the text before the first colon and the text
\* after it, both trimmed and in pieces; the name of a user agent is one
\* piece.  A comment line has the key "#".
Line(key, value) == [key |-> key, value |-> value]

\* key.trim().toLowerCase() on the directive names the model uses
DirectiveLower(key) ==
    CASE key = "User-agent" -> "user-agent"
      [] key = "Disallow" -> "disallow"
      [] key = "Allow" -> "allow"
      [] OTHER -> key

\* the loop of parseRobotsTxt: cur holds currentRule, <<>> while it is null
RECURSIVE parseLoop(_, _, _, _)
parseLoop(lines, i, rules, cur) ==
    IF i > Len(lines) THEN rules \o cur
    ELSE LET key == DirectiveLower(lines[i].key)
             value == lines[i].value
         IN  IF key = "#" \/ key = "" \/ value = <<>>
             THEN parseLoop(lines, i + 1, rules, cur)
             ELSE IF key = "user-agent"
             THEN parseLoop(lines, i + 1, rules \o cur, <<RobotsRule(value[1], <<>>, <<>>)>>)
             ELSE IF key = "disallow" /\ cur # <<>>
             THEN parseLoop(lines, i + 1, rules,
                            <<[cur[1] EXCEPT !.disallow = Append(@, value)]>>)
             ELSE IF key = "allow" /\ cur # <<>>
             THEN parseLoop(lines, i + 1, rules,
                            <<[cur[1] EXCEPT !.allow = Append(@, value)]>>)
             ELSE parseLoop(lines, i + 1, rules, cur)

parseRobotsTxt(lines) == parseLoop(lines, 1, <<>>, <<>>)

\* toLowerCase on the user agent names the model uses
AgentLower(a) ==
    CASE a = "DeepCrawler" -> "deepcrawler"
      [] a = "Googlebot" -> "googlebot"
      [] a = "Deep" -> "deep"
      [] OTHER -> a

\* String.prototype.includes on the lowercased user agent names
AgentIncludes(s, part) == part = s \/ (s = "deepcrawler" /\ part \in {"deep", "crawler"})

\* Array.prototype.find: the first element among those at the indices that
\* pass the test, <<>> when none does
Find(q, hits) ==
    IF hits = {} THEN <<>>
    ELSE <<q[CHOOSE k \in hits : \A m \in hits : k <= m]>>

\* allow everything
AllowAll == RobotsRule("*", << <<"/">> >>, <<>>)
\* allow nothing
defaultRules_DenyAll == <<RobotsRule("*", <<>>, << <<"/">> >>)>>
\* the rules getRules stores when robots.txt cannot be fetched
defaultRules == <<AllowAll>>

\* exact match of the user agent, then a rule whose agent is part of it, then
\* the * rule, then allow everything
findApplicableRules(rules, userAgent) ==
    LET userAgentLower == AgentLower(userAgent)
        exactMatch ==
            Find(rules, { k \in 1..Len(rules) : AgentLower(rules[k].userAgent) = userAgentLower })
        partialMatch ==
            Find(rules, { k \in 1..Len(rules) :
                            AgentIncludes(userAgentLower, AgentLower(rules[k].userAgent)) })
        wildcardMatch == Find(rules, { k \in 1..Len(rules) : rules[k].userAgent = "*" })
    IN  IF exactMatch # <<>> THEN exactMatch[1]
        ELSE IF partialMatch # <<>> THEN partialMatch[1]
        ELSE IF wildcardMatch # <<>> THEN wildcardMatch[1]
        ELSE AllowAll

\* the cache keeps entries for one hour
CACHE_TTL == 3600000

\* the RobotsChecker before any call.  cache holds the entry of the one origin
\* the model asks about, <<>> while there is none; served is what the origin
\* answers for /robots.txt: "html" a body with an HTML content type, "plain"
\* a body with the content type text/plain, "down" no answer; pc is where
\* the isAllowed call stands, ret what it returned, failed whether the URL
\* did not parse or robots.txt could not be fetched in this call.
NoServed == [kind |-> "down", lines |-> <<>>]
RobotsIdle ==
    [cache |-> <<>>, served |-> NoServed, pc |-> "idle", url |-> NoUrl, userAgent |-> "",
     ret |-> "none", failed |-> FALSE, calls |-> 0]

\* no CrawlRules object yet
RulesIdle ==
    [pc |-> "idle", options |-> NoOptions, baseDomain |-> NoHost, url |-> NoUrl, depth |-> 0,
     pagesScraped |-> 0, ret |-> FALSE]

\* the robots.txt of the crawled site: every crawler is told to keep out of /p1
SiteRobots ==
    [kind |-> "html",
     lines |-> <<Line("User-agent", <<"*">>), Line("Disallow", <<"/", "p1">>)>>]

SideInit ==
    /\ cleaned = 0
    /\ held = NoJob
    /\ norm = NormIdle
    /\ batch = BatchIdle
    /\ robots = RobotsIdle
    /\ ruled = RulesIdle

JobInit ==
    /\ jobs = {}
    /\ job = [j \in Tasks |-> NoJob]
    /\ exec = [j \in Tasks |-> "none"]
    /\ creating = 0
    /\ nextId = 1

CrawlInit ==
    /\ JobInit
    /\ cleaned = 0
    /\ held = NoJob
    /\ norm = NormIdle
    /\ batch = BatchIdle
    /\ robots = [RobotsIdle EXCEPT !.served = SiteRobots]
    /\ ruled = RulesIdle
    /\ active = 1
    /\ \E o \in CrawlOptionSet : task = [t \in Tasks |-> IF t = 1 THEN CalledTask(o) ELSE IdleTask]
    /\ fetchLog = [t \in Tasks |-> <<>>]
    /\ dequeueLog = [t \in Tasks |-> <<>>]
    /\ web \in PrivateHosts
    /\ now = 1

CrawlNext ==
    \/ CrawlStart(1)
    \/ CrawlDequeue(1)
    \/ CrawlCheckRules(1)
    \/ \E rawLinks \in SeqsUpTo(Hrefs(web), MaxLinks) : CrawlPageScraped(1, rawLinks)
    \/ \E msg \in FailureMessages : CrawlPageFailed(1, msg)
    \/ CrawlCheckLimit(1)
    \/ CrawlReturn(1)

CrawlSpec == CrawlInit /\ [][CrawlNext /\ UNCHANGED jobVars]_vars

\* the hrefs of a web of cycles: a link to the page itself, one back to the
\* seed, one to another host
CycleHrefs == { MkUrl("rel", "", NoHost, "p1", 1, TRUE), MkUrl("abs", "https", HostAUpper, "", 0, TRUE),
                MkUrl("abs", "https", HostB, "", 0, FALSE) }

CrawlLiveInit == CrawlInit /\ web = Loopback

CrawlLiveNext ==
    \/ CrawlStart(1)
    \/ CrawlDequeue(1)
    \/ CrawlCheckRules(1)
    \/ \E rawLinks \in SeqsUpTo(CycleHrefs, MaxLinks) : CrawlPageScraped(1, rawLinks)
    \/ \E msg \in FailureMessages : CrawlPageFailed(1, msg)
    \/ CrawlCheckLimit(1)
    \/ CrawlReturn(1)

\* the hrefs of a web with broken links: one that no base resolves, a
\* relative one, one to another host; every page has a broken link
BrokenHrefs == { BadUrl, MkUrl("rel", "", NoHost, "p1", 1, TRUE),
                 MkUrl("abs", "https", HostB, "", 0, FALSE) }
BrokenRawLinks ==
    { q \in SeqsUpTo(BrokenHrefs, MaxLinks + 1) : \E k \in 1..Len(q) : q[k] = BadUrl }

BrokenNext ==
    \/ CrawlStart(1)
    \/ CrawlDequeue(1)
    \/ CrawlCheckRules(1)
    \/ \E rawLinks \in BrokenRawLinks : CrawlPageScraped(1, rawLinks)
    \/ \E msg \in FailureMessages : CrawlPageFailed(1, msg)
    \/ CrawlCheckLimit(1)
    \/ CrawlReturn(1)

\* one crawl of the web with broken links
BrokenSpec == CrawlLiveInit /\ [][BrokenNext /\ UNCHANGED jobVars]_vars

\* one crawl whose synchronous runs go on to their next await and whose
\* pending fetch settles, by returning or by failing
CrawlLiveSpec ==
    /\ CrawlLiveInit
    /\ [][CrawlLiveNext /\ UNCHANGED jobVars]_vars
    /\ WF_vars(CrawlLiveNext /\ UNCHANGED jobVars)

\* ------------------------------------------------------------------ JobManager
\* lines 102-118: generate the id, build the Job with status pending, store it;
\* the call to executeCrawl follows in the same synchronous run
CreateJob(o) ==
    /\ active = 0 /\ creating = 0
    /\ nextId <= MaxJobs
    /\ LET jobId == nextId
       IN  /\ job' = [job EXCEPT ![jobId] =
                        [id |-> jobId, status |-> "pending", startTime |-> now, endTime |-> 0,
                         options |-> o, metrics |-> NewMetrics, result |-> <<>>, error |-> ""]]
           /\ jobs' = jobs \cup {jobId}
           /\ creating' = jobId
    /\ nextId' = nextId + 1
    /\ UNCHANGED <<exec, crawlVars, sideVars>>

\* queue, visited and counters are shared by all crawl() calls: a new call
\* starts them afresh for every job
ExecuteCrawlStart_SharedLocals(j) ==
    /\ active = 0 /\ creating = j
    /\ exec[j] = "none"
    /\ j \in jobs
    /\ job' = [job EXCEPT ![j].status = "running"]
    /\ jobs' = jobs \cup {j}
    /\ exec' = [exec EXCEPT ![j] = "await"]
    /\ task' = [t \in Tasks |->
                  IF t = j THEN CalledTask(job[j].options)
                  ELSE [task[t] EXCEPT !.queue = <<>>, !.visited = {}, !.metrics = NewMetrics]]
    /\ active' = j
    /\ UNCHANGED <<fetchLog, dequeueLog, web, now, creating, nextId, sideVars>>

\* lines 131-146: executeCrawl up to its await: status running, crawl(job.options) called
ExecuteCrawlStart(j) ==
    /\ active = 0 /\ creating = j
    /\ exec[j] = "none"
    /\ j \in jobs
    /\ job' = [job EXCEPT ![j].status = "running"]
    /\ jobs' = jobs \cup {j}
    /\ exec' = [exec EXCEPT ![j] = "await"]
    /\ task' = [task EXCEPT ![j] = CalledTask(job[j].options)]
    /\ active' = j
    /\ UNCHANGED <<fetchLog, dequeueLog, web, now, creating, nextId, sideVars>>

\* line 125: crawl() reached its first await (or settled); createJob returns the id
CreateJobReturn(j) ==
    /\ active = 0 /\ creating = j
    /\ exec[j] = "await"
    /\ creating' = 0
    /\ UNCHANGED <<jobs, job, exec, nextId, crawlVars, sideVars>>

\* the completion forgets to stamp endTime
ExecuteCrawlCompleted_NoEndTime(j) ==
    /\ active = 0 /\ creating = 0
    /\ exec[j] = "await"
    /\ task[j].pc = "resolved"
    /\ job' = [job EXCEPT ![j].status = "completed",
                          ![j].result = <<[task[j].result EXCEPT !.jobId = j]>>]
    /\ jobs' = jobs \cup {j}
    /\ exec' = [exec EXCEPT ![j] = "done"]
    /\ UNCHANGED <<creating, nextId, crawlVars, sideVars>>

\* lines 148-162: the awaited crawl resolved
ExecuteCrawlCompleted(j) ==
    /\ active = 0 /\ creating = 0
    /\ exec[j] = "await"
    /\ task[j].pc = "resolved"
    /\ LET result == task[j].result
       IN  job' = [job EXCEPT ![j].status = "completed",
                              ![j].endTime = now,
                              ![j].result = <<[result EXCEPT !.jobId = j]>>,
                              ![j].metrics = [pagesScraped |-> result.pagesScraped,
                                              linksDiscovered |-> result.linksDiscovered,
                                              errors |-> Len(result.errors),
                                              currentDepth |-> 0]]
    /\ jobs' = jobs \cup {j}
    /\ exec' = [exec EXCEPT ![j] = "done"]
    /\ UNCHANGED <<creating, nextId, crawlVars, sideVars>>

\* the catch block also runs for a job that already completed
ExecuteCrawlFailed_AfterCompleted(j) ==
    /\ active = 0 /\ creating = 0
    /\ \/ exec[j] = "await" /\ task[j].pc = "rejected"
       \/ exec[j] = "done" /\ job[j].status = "completed"
    /\ job' = [job EXCEPT ![j].status = "failed",
                          ![j].endTime = now,
                          ![j].error = task[j].error]
    /\ jobs' = jobs \cup {j}
    /\ exec' = [exec EXCEPT ![j] = "done"]
    /\ UNCHANGED <<creating, nextId, crawlVars, sideVars>>

\* the rejection is not caught: executeCrawl ends without touching the job
ExecuteCrawlFailed_Uncaught(j) ==
    /\ active = 0 /\ creating = 0
    /\ exec[j] = "await"
    /\ task[j].pc = "rejected"
    /\ exec' = [exec EXCEPT ![j] = "done"]
    /\ UNCHANGED <<jobs, job, creating, nextId, crawlVars, sideVars>>

\* lines 169-178: the awaited crawl rejected
ExecuteCrawlFailed(j) ==
    /\ active = 0 /\ creating = 0
    /\ exec[j] = "await"
    /\ task[j].pc = "rejected"
    /\ job' = [job EXCEPT ![j].status = "failed",
                          ![j].endTime = now,
                          ![j].error = task[j].error]
    /\ jobs' = jobs \cup {j}
    /\ exec' = [exec EXCEPT ![j] = "done"]
    /\ UNCHANGED <<creating, nextId, crawlVars, sideVars>>

\* lines 191-205: the snapshot getJobStatus returns, NoJob for undefined
getJobStatus(jobId) ==
    IF jobId \notin jobs THEN NoJob
    ELSE [id |-> job[jobId].id, status |-> job[jobId].status, startTime |-> job[jobId].startTime,
          endTime |-> job[jobId].endTime, options |-> job[jobId].options,
          metrics |-> job[jobId].metrics, result |-> <<>>, error |-> job[jobId].error]

\* lines 210-212
getJobResult(jobId) == IF jobId \notin jobs THEN NoJob ELSE job[jobId]

\* lines 217-219: Map.delete, true when the key was present
DeleteJob(j) ==
    /\ active = 0 /\ creating = 0
    /\ j \in jobs
    /\ jobs' = jobs \ {j}
    /\ UNCHANGED <<job, exec, creating, nextId, crawlVars, sideVars>>

\* a synchronous step of the crawl of job j
JobCrawlStep(j) ==
    /\ \/ CrawlStart(j)
       \/ CrawlDequeue(j)
       \/ CrawlCheckRules(j)
       \/ CrawlCheckLimit(j)
       \/ CrawlReturn(j)
    /\ UNCHANGED jobVars

\* a fetch of job j settles: the event loop runs the continuation of crawl()
JobFetchSettles(j) ==
    /\ creating = 0
    /\ \/ \E rawLinks \in SeqsUpTo(JobHrefs, JobMaxLinks) : CrawlPageScraped(j, rawLinks)
       \/ \E msg \in FailureMessages : CrawlPageFailed(j, msg)
    /\ UNCHANGED <<jobs, job, exec, creating, nextId>>

Init ==
    /\ JobInit
    /\ SideInit
    /\ active = 0
    /\ task = [t \in Tasks |-> IdleTask]
    /\ fetchLog = [t \in Tasks |-> <<>>]
    /\ dequeueLog = [t \in Tasks |-> <<>>]
    /\ web = Loopback
    /\ now = 1

Next ==
    \/ \E o \in JobOptionSet : CreateJob(o)
    \/ \E j \in Tasks :
        \/ ExecuteCrawlStart(j)
        \/ CreateJobReturn(j)
        \/ JobCrawlStep(j)
        \/ JobFetchSettles(j)
        \/ ExecuteCrawlCompleted(j)
        \/ ExecuteCrawlFailed(j)
        \/ DeleteJob(j)

Spec == Init /\ [][Next]_vars

\* ------------------------------------------------------------------ callers that write to what they were given
\* r = getJobResult(j); r.status = 'pending': r is the object the map holds
CallerWritesResult(j) ==
    /\ active = 0 /\ creating = 0
    /\ j \in jobs
    /\ job' = [job EXCEPT ![j].status = "pending"]
    /\ held' = job'[j]
    /\ UNCHANGED <<jobs, exec, creating, nextId, crawlVars, cleaned, norm, batch, robots, ruled>>

\* s = getJobStatus(j); s.status = 'pending': s is a new object
CallerWritesSnapshot(j) ==
    /\ active = 0 /\ creating = 0
    /\ j \in jobs
    /\ held' = [getJobStatus(j) EXCEPT !.status = "pending"]
    /\ UNCHANGED <<jobVars, crawlVars, cleaned, norm, batch, robots, ruled>>

\* s = getJobStatus(j); s.metrics.pagesScraped = -1: s.metrics is job.metrics
CallerWritesSnapshotMetrics(j) ==
    /\ active = 0 /\ creating = 0
    /\ j \in jobs
    /\ job' = [job EXCEPT ![j].metrics.pagesScraped = -1]
    /\ held' = [getJobStatus(j) EXCEPT !.metrics.pagesScraped = -1]
    /\ UNCHANGED <<jobs, exec, creating, nextId, crawlVars, cleaned, norm, batch, robots, ruled>>

CallerWrites(j) ==
    \/ CallerWritesResult(j)
    \/ CallerWritesSnapshot(j)
    \/ CallerWritesSnapshotMetrics(j)

CallerNext ==
    \/ Next
    \/ \E j \in Tasks : CallerWrites(j)

CallerSpec == Init /\ [][CallerNext]_vars

\* ------------------------------------------------------------------ normalizeUrl alone
Entry(k, v) == [key |-> k, val |-> v]
Entries == { Entry(k, v) : k \in {"a", "b"}, v \in {"1", "2"} }
ExampleHost == HostName("Example.COM")

\* the valid URLs normalizeUrl is given
NormUrls ==
    { MkFullUrl("abs", s, h, port, p, t, q, f) :
        s \in {"https", "HTTPS", "http"}, h \in {ExampleHost, HostName("example.com")},
        port \in {0, 80, 443}, p \in {"", "Page"}, t \in 0..MaxSlashes,
        q \in SeqsUpTo(Entries, MaxParams), f \in BOOLEAN }

\* no crawl is running and no job was created
CrawlIdle ==
    /\ JobInit
    /\ active = 0
    /\ task = [t \in Tasks |-> IdleTask]
    /\ fetchLog = [t \in Tasks |-> <<>>]
    /\ dequeueLog = [t \in Tasks |-> <<>>]
    /\ web = Loopback
    /\ now = 1

NormInit ==
    /\ CrawlIdle
    /\ cleaned = 0
    /\ held = NoJob
    /\ batch = BatchIdle
    /\ robots = RobotsIdle
    /\ ruled = RulesIdle
    /\ \E u \in NormUrls : norm = [NormIdle EXCEPT !.a = u]

\* normalizeUrl(a)
NormalizeFirst ==
    /\ norm.a # NoUrl /\ norm.na = NoUrl
    /\ norm' = [norm EXCEPT !.na = normalizeUrl(norm.a)]
    /\ UNCHANGED <<crawlVars, jobVars, cleaned, held, batch, robots, ruled>>

\* normalizeUrl(normalizeUrl(a))
NormalizeAgain ==
    /\ norm.na # NoUrl /\ norm.nna = NoUrl /\ norm.b = NoUrl
    /\ norm' = [norm EXCEPT !.nna = normalizeUrl(norm.na)]
    /\ UNCHANGED <<crawlVars, jobVars, cleaned, held, batch, robots, ruled>>

\* normalizeUrl(b) for a second URL b
NormalizeSecond(b) ==
    /\ norm.na # NoUrl /\ norm.nna = NoUrl /\ norm.b = NoUrl
    /\ norm' = [norm EXCEPT !.b = b, !.nb = normalizeUrl(b)]
    /\ UNCHANGED <<crawlVars, jobVars, cleaned, held, batch, robots, ruled>>

\* the URLs that differ from u only in the letter case of scheme or host, the
\* presence of a fragment, an explicit default port, one trailing slash on a
\* non-root path, or the order of query parameters whose keys are distinct
DistinctKeys(q) == \A i, k \in 1..Len(q) : i # k => q[i].key # q[k].key
Reorderings(q) == { [i \in 1..Len(q) |-> q[f[i]]] : f \in Permutations(1..Len(q)) }
Variants(u) ==
    { MkFullUrl("abs", s, h, port, u.path, t, q, f) :
        s \in { x \in {"https", "HTTPS", "http"} : ToLowerCase(x) = ToLowerCase(u.scheme) },
        h \in { x \in {ExampleHost, HostName("example.com")} :
                  ToLowerCase(x.name) = ToLowerCase(u.host.name) },
        port \in IF u.port \in {0, DefaultPort(ToLowerCase(u.scheme))}
                 THEN {0, DefaultPort(ToLowerCase(u.scheme))} ELSE {u.port},
        t \in IF u.path # "" /\ u.tslash \in {0, 1} THEN {0, 1} ELSE {u.tslash},
        q \in IF DistinctKeys(u.query) THEN Reorderings(u.query) ELSE {u.query},
        f \in BOOLEAN }

NormNext ==
    \/ NormalizeFirst
    \/ NormalizeAgain
    \/ \E b \in Variants(norm.a) : NormalizeSecond(b)

NormSpec == NormInit /\ [][NormNext]_vars

\* ------------------------------------------------------------------ batchScrape
\* the URL strings a batch is given: one that normalizes to another string,
\* one in normal form, one that does not parse
BatchUrls == { SeedUrl, HttpUrl(HostB, ""), BadUrl }

BatchInit ==
    /\ CrawlIdle
    /\ cleaned = 0
    /\ held = NoJob
    /\ norm = NormIdle
    /\ robots = RobotsIdle
    /\ ruled = RulesIdle
    /\ \E urls \in SeqsUpTo(BatchUrls, MaxBatch), c \in 1..MaxConc :
          /\ urls # <<>>
          /\ batch = [BatchIdle EXCEPT !.pc = "called", !.urls = urls, !.concurrency = c]

BatchFrame == UNCHANGED <<crawlVars, jobVars, cleaned, held, norm, robots, ruled>>

\* lines 275-293 and 243-245: batchScrape calls processWithConcurrency
BatchScrape ==
    /\ batch.pc = "called"
    /\ batch' = [batch EXCEPT !.pc = "fill",
                               !.queue = [i \in 1..Len(batch.urls) |-> i],
                               !.op = [i \in 1..Len(batch.urls) |-> NewOp]]
    /\ BatchFrame

\* the pool waits as soon as one operation is executing
poolIsFull_AnyExecuting(queue, executing, concurrency) == executing # {}

\* line 249 negated: the inner loop ends when no URL is left or no slot is free
poolIsFull(queue, executing, concurrency) ==
    ~(Len(queue) > 0 /\ Cardinality(executing) < concurrency)

\* the pool starts an operation whatever the number already executing
poolHasRoom_Always(executing, concurrency) == TRUE

\* line 249: executing.size < concurrency
poolHasRoom(executing, concurrency) == Cardinality(executing) < concurrency

\* lines 249-261 and 195-203: one turn of the inner loop starts the next
\* operation; scrapeSingleUrl runs to its await, or returns at once when
\* normalizeUrl throws
BatchStart ==
    /\ batch.pc = "fill"
    /\ batch.queue # <<>>
    /\ poolHasRoom(batch.executing, batch.concurrency)
    /\ LET i == Head(batch.queue)
           u == batch.urls[i]
       IN  batch' = [batch EXCEPT
                !.queue = Tail(@),
                !.executing = @ \cup {i},
                !.op[i] = IF UrlParses(u) THEN [st |-> "fetching", out |-> NoOutcome]
                          ELSE [st |-> "settled", out |-> Outcome(FALSE, u, now)]]
    /\ BatchFrame

\* lines 263-266: the inner loop is over, the pool awaits Promise.race(executing)
BatchAwait ==
    /\ batch.pc = "fill"
    /\ poolIsFull(batch.queue, batch.executing, batch.concurrency)
    /\ batch.executing # {}
    /\ batch' = [batch EXCEPT !.pc = "wait", !.race = batch.executing]
    /\ BatchFrame

\* lines 204-232: the fetch of operation i returned (ok) or failed
OpFetchSettles(i, ok) ==
    /\ batch.pc = "wait"
    /\ i \in DOMAIN batch.op
    /\ batch.op[i].st = "fetching"
    /\ batch' = [batch EXCEPT !.op[i] =
            [st |-> "settled",
             out |-> IF ok THEN Outcome(TRUE, normalizeUrl(batch.urls[i]), now)
                     ELSE Outcome(FALSE, batch.urls[i], now)]]
    /\ BatchFrame

\* the outcome of a failed operation is not pushed
OpThen_DropFailure(i) ==
    /\ batch.pc = "wait"
    /\ i \in DOMAIN batch.op
    /\ batch.op[i].st = "settled"
    /\ batch' = [batch EXCEPT !.op[i].st = "recorded",
                               !.results = IF batch.op[i].out.success
                                           THEN Append(@, batch.op[i].out) ELSE @]
    /\ BatchFrame

\* lines 253-255: results.push(result)
OpThen(i) ==
    /\ batch.pc = "wait"
    /\ i \in DOMAIN batch.op
    /\ batch.op[i].st = "settled"
    /\ batch' = [batch EXCEPT !.op[i].st = "recorded",
                               !.results = Append(@, batch.op[i].out)]
    /\ BatchFrame

\* the finally callback leaves the promise in executing
OpFinally_KeepsExecuting(i) ==
    /\ batch.pc = "wait"
    /\ i \in DOMAIN batch.op
    /\ batch.op[i].st = "recorded"
    /\ batch' = [batch EXCEPT !.op[i].st = "removed"]
    /\ BatchFrame

\* lines 256-258: executing.delete(promise)
OpFinally(i) ==
    /\ batch.pc = "wait"
    /\ i \in DOMAIN batch.op
    /\ batch.op[i].st = "recorded"
    /\ batch' = [batch EXCEPT !.op[i].st = "removed", !.executing = @ \ {i}]
    /\ BatchFrame

\* line 265: a promise of the race has settled, the pool goes on
BatchWake ==
    /\ batch.pc = "wait"
    /\ \E i \in batch.race : batch.op[i].st = "removed"
    /\ batch' = [batch EXCEPT !.pc = "fill", !.race = {}]
    /\ BatchFrame

\* lines 247, 269 and 295-327: the outer loop is over; successes and
\* failures are separated and the result returned
BatchReturn ==
    /\ batch.pc = "fill"
    /\ batch.queue = <<>> /\ batch.executing = {}
    /\ LET results == SelectSeq(batch.results, LAMBDA r : r.success)
           errors == SelectSeq(batch.results, LAMBDA r : ~r.success)
       IN  batch' = [batch EXCEPT !.pc = "returned",
                        !.result = [results |-> results, errors |-> errors,
                                    stats |-> [total |-> Len(batch.urls),
                                               success |-> Len(results),
                                               failed |-> Len(errors)]]]
    /\ BatchFrame

BatchNext ==
    \/ BatchScrape
    \/ BatchStart
    \/ BatchAwait
    \/ \E i \in 1..MaxBatch, ok \in BOOLEAN : OpFetchSettles(i, ok)
    \/ \E i \in 1..MaxBatch : OpThen(i)
    \/ \E i \in 1..MaxBatch : OpFinally(i)
    \/ BatchWake
    \/ BatchReturn

BatchSpec == BatchInit /\ [][BatchNext]_vars

\* one batch under the event loop: the synchronous run of the pool goes on to
\* its await, every pending fetch settles, and every callback that is ready runs
BatchLiveSpec == BatchSpec /\ WF_vars(BatchNext)

\* ------------------------------------------------------------------ cleanupOldJobs, under a clock
\* Date.now() moves on between two synchronous runs
Tick ==
    /\ active = 0 /\ creating = 0
    /\ now < MaxClock
    /\ now' = now + 1
    /\ UNCHANGED <<active, task, fetchLog, dequeueLog, web, jobVars, sideVars>>

\* the test drops the status: any job whose endTime is old enough goes
cleanupTest_AnyStatus(j, nowMs, maxAgeMs) ==
    nowMs - job[j].endTime > maxAgeMs

\* lines 236-240: the test of one entry
cleanupTest(j, nowMs, maxAgeMs) ==
    /\ job[j].status = "completed" \/ job[j].status = "failed"
    /\ job[j].endTime # 0
    /\ nowMs - job[j].endTime > maxAgeMs

\* lines 235-244: the loop over the entries of the map, from entry i on
RECURSIVE cleanupLoop(_, _, _, _, _)
cleanupLoop(i, nowMs, maxAgeMs, entries, deleted) ==
    IF i > MaxJobs THEN [jobs |-> entries, deleted |-> deleted]
    ELSE IF i \in jobs /\ cleanupTest(i, nowMs, maxAgeMs)
         THEN cleanupLoop(i + 1, nowMs, maxAgeMs, entries \ {i}, deleted + 1)
         ELSE cleanupLoop(i + 1, nowMs, maxAgeMs, entries, deleted)

\* lines 231-251
CleanupOldJobs(maxAgeMs) ==
    /\ active = 0 /\ creating = 0
    /\ LET r == cleanupLoop(1, now, maxAgeMs, jobs, 0)
       IN  /\ jobs' = r.jobs
           /\ cleaned' = r.deleted
    /\ UNCHANGED <<job, exec, creating, nextId, crawlVars, held, norm, batch, robots, ruled>>

\* jobs are created, run and end while the clock moves; the only call that
\* removes a job is cleanupOldJobs
CleanupNext ==
    \/ \E o \in CleanupOptionSet : CreateJob(o)
    \/ \E j \in Tasks :
        \/ ExecuteCrawlStart(j)
        \/ CreateJobReturn(j)
        \/ JobCrawlStep(j)
        \/ JobFetchSettles(j)
        \/ ExecuteCrawlCompleted(j)
        \/ ExecuteCrawlFailed(j)
    \/ Tick
    \/ \E maxAgeMs \in 0..MaxAge : CleanupOldJobs(maxAgeMs)

CleanupSpec == Init /\ [][CleanupNext]_vars

\* ------------------------------------------------------------------ properties of one crawl (CrawlSpec)
Engine == task[1]
Returned == Engine.pc = "resolved"
SeqElems(q) == { q[i] : i \in 1..Len(q) }
PageUrls(pages) == { pages[i].url : i \in 1..Len(pages) }
ErrorUrls(errors) == { errors[i].url : i \in 1..Len(errors) }

\* C1: no URL appears twice in the pages list, and when crawl() has returned
\* the distinct URLs ever dequeued are as many as the Visited set holds.
C1_VisitedInvariant ==
    /\ \A i, k \in 1..Len(Engine.pages) : i # k => Engine.pages[i].url # Engine.pages[k].url
    /\ Returned =>
         /\ Cardinality(SeqElems(dequeueLog[1])) = Cardinality(Engine.visited)
         /\ \A i, k \in 1..Len(Engine.result.pages) :
                i # k => Engine.result.pages[i].url # Engine.result.pages[k].url

\* a crawl returned after dequeuing some URL a second time, with two pages scraped
C1_Witness ==
    /\ Returned
    /\ Len(dequeueLog[1]) > Cardinality(Engine.visited)
    /\ Len(Engine.result.pages) >= 2

\* C2: every page of a crawl, and of its result, has depth < options.maxDepth.
C2_DepthBound ==
    /\ \A i \in 1..Len(Engine.pages) : Engine.pages[i].depth < Engine.options.maxDepth
    /\ Returned =>
         \A i \in 1..Len(Engine.result.pages) :
             Engine.result.pages[i].depth < Engine.options.maxDepth

\* a returned crawl holds a page at the deepest level allowed whose links were found but not followed
C2_Witness ==
    /\ Returned
    /\ Engine.options.maxDepth >= 2
    /\ \E i \in 1..Len(Engine.result.pages) :
          /\ Engine.result.pages[i].depth = Engine.options.maxDepth - 1
          /\ Engine.result.pages[i].links # <<>>

\* C3: at every point of a crawl pagesScraped <= options.maxPages, and the
\* result's pagesScraped is the length of its pages list.
C3_PageLimit ==
    /\ Engine.metrics.pagesScraped <= Engine.options.maxPages
    /\ Returned =>
         /\ Engine.result.pagesScraped <= Engine.options.maxPages
         /\ Engine.result.pagesScraped = Len(Engine.result.pages)

\* a crawl stopped by the page limit with items left in the queue
C3_Witness ==
    /\ Returned
    /\ Engine.result.pagesScraped = Engine.options.maxPages
    /\ Engine.options.maxPages >= 2
    /\ Engine.queue # <<>>

\* C4: with strategy "domain" every page has the host of the seed URL and no
\* URL of another host is ever fetched, though such links are enqueued.
SeedHost == [name |-> ToLowerCase(Engine.options.startUrl.host.name), ip |-> Engine.options.startUrl.host.ip]
C4_DomainScoping ==
    Engine.options.strategy = "domain" =>
        /\ \A u \in PageUrls(Engine.pages) : u.host = SeedHost
        /\ \A u \in SeqElems(fetchLog[1]) : u.host = SeedHost
        /\ Returned => \A u \in PageUrls(Engine.result.pages) : u.host = SeedHost

\* with strategy "all" a page of another host is in the returned result
C4_Witness ==
    /\ Returned
    /\ Engine.options.strategy = "all"
    /\ \E u \in PageUrls(Engine.result.pages) : u.host = HostB /\ u.host # SeedHost

\* with strategy "domain" a link to another host was enqueued and dequeued, and the crawl went on
C4_DomainCase ==
    /\ Returned
    /\ Engine.options.strategy = "domain"
    /\ \E u \in Engine.visited : u.host = HostB
    /\ Len(Engine.result.pages) >= 2

\* C5: a link whose host is 127.0.0.1 or 10.0.0.5 is never fetched and never
\* appears in pages, whatever the strategy.
C5_PrivateExclusion ==
    /\ \A u \in SeqElems(fetchLog[1]) : u.host \notin PrivateHosts
    /\ \A u \in PageUrls(Engine.pages) : u.host \notin PrivateHosts
    /\ Returned => \A u \in PageUrls(Engine.result.pages) : u.host \notin PrivateHosts

\* under strategy "all" a link to 10.0.0.5 was discovered and dequeued
C5_Witness ==
    /\ Returned
    /\ Engine.options.strategy = "all"
    /\ \E u \in Engine.visited : u.host = Private10
    /\ Engine.result.pages # <<>>

\* the same for 127.0.0.1
C5_WitnessLoopback ==
    /\ Returned
    /\ Engine.options.strategy = "all"
    /\ \E u \in Engine.visited : u.host = Loopback
    /\ Engine.result.pages # <<>>

\* C6: a fetch or parse failure of one URL is recorded in errors, never in
\* pages, never rejects the crawl, and the loop goes on: it ends only on an
\* empty queue or the page limit.
C6_ErrorIsolation ==
    /\ ErrorUrls(Engine.errors) \cap PageUrls(Engine.pages) = {}
    /\ Engine.errors # <<>> => Engine.pc # "rejected"
    /\ Len(fetchLog[1]) = Len(Engine.pages) + Len(Engine.errors)
                            + (IF Engine.pc = "fetch" THEN 1 ELSE 0)
    /\ ErrorUrls(Engine.errors) \subseteq SeqElems(fetchLog[1])
    /\ Returned =>
         /\ Engine.result.errors = Engine.errors
         /\ ErrorUrls(Engine.result.errors) \cap PageUrls(Engine.result.pages) = {}
         /\ \/ Engine.queue = <<>>
            \/ hasReachedPageLimit(Engine.options, Engine.metrics.pagesScraped)

\* a returned crawl whose first fetch of a link failed and which scraped a page after it
C6_Witness ==
    /\ Returned
    /\ \E i, k \in 1..Len(fetchLog[1]) :
          /\ i < k
          /\ fetchLog[1][i] \in ErrorUrls(Engine.result.errors)
          /\ fetchLog[1][k] \in PageUrls(Engine.result.pages)

\* ------------------------------------------------------------------ scheduling
\* The event loop runs every continuation that is ready: the synchronous run
\* of a task goes on to its next await, a pending fetch settles (it returns or
\* fails), and the continuation of executeCrawl runs once crawl() has settled.
JobProgress(j) ==
    \/ ExecuteCrawlStart(j)
    \/ CreateJobReturn(j)
    \/ JobCrawlStep(j)
    \/ JobFetchSettles(j)
    \/ ExecuteCrawlCompleted(j)
    \/ ExecuteCrawlFailed(j)

LiveSpec == Init /\ [][Next]_vars /\ \A j \in Tasks : WF_vars(JobProgress(j))

\* ------------------------------------------------------------------ properties of the JobManager (Spec, LiveSpec)
TerminalStatus == {"completed", "failed"}
Created(j) == job[j].status # "none"

\* C7: when createJob returns, before any further background step,
\* getJobStatus on the returned id reports status pending.
C7_PendingAfterCreate ==
    [][\A j \in Tasks : CreateJobReturn(j) => getJobStatus(j).status' = "pending"]_vars

\* what the code does: the job is stored with status running when createJob returns
C7_RunningAfterCreate ==
    [][\A j \in Tasks : CreateJobReturn(j) => getJobStatus(j).status' = "running"]_vars

\* createJob is about to return the id of the job it stored
C7_Witness ==
    \E j \in Tasks : creating = j /\ active = 0 /\ exec[j] = "await" /\ j \in jobs

\* C8: the status of a job moves only pending -> running -> completed or
\* pending -> running -> failed; a completed or failed job keeps its status,
\* and stays stored, through every step but a deleteJob of that very job.
StatusStep(a, b) ==
    \/ a = b
    \/ a = "none" /\ b = "pending"
    \/ a = "pending" /\ b = "running"
    \/ a = "running" /\ b \in TerminalStatus

C8_StatusForwardOnly ==
    [][\A j \in Tasks :
          /\ StatusStep(job[j].status, job'[j].status)
          /\ (j \in jobs => StatusStep(getJobStatus(j).status, getJobStatus(j).status')
                            \/ DeleteJob(j))
          /\ (j \in jobs /\ job[j].status \in TerminalStatus =>
                \/ j \in jobs' /\ getJobStatus(j).status' = job[j].status
                \/ DeleteJob(j))]_vars

\* one job has completed and a second one, created later, has failed
C8_Witness ==
    /\ job[1].status = "completed" /\ 1 \in jobs
    /\ job[2].status = "failed" /\ 2 \in jobs

\* C9: every job created eventually reaches status completed or failed, when
\* every fetch settles and the background task is scheduled.
C9_EveryJobEnds ==
    \A j \in Tasks : Created(j) ~> (job[j].status \in TerminalStatus)

\* a job that fetched a page, met a failing fetch and then completed
C9_Witness ==
    \E j \in Tasks :
        /\ job[j].status = "completed"
        /\ Len(job[j].result) = 1
        /\ job[j].result[1].pages # <<>>
        /\ job[j].result[1].errors # <<>>

\* C10: a job whose seed URL does not parse ends failed, with the error
\* message, no result and no fetch; a job whose seed parses never fails,
\* whatever its pages do.
C10_SeedFailureOnly ==
    \A j \in Tasks :
        /\ job[j].status = "failed" =>
              /\ ~UrlParses(job[j].options.startUrl)
              /\ job[j].error # ""
              /\ job[j].result = <<>>
              /\ job[j].endTime # 0
        /\ (Created(j) /\ ~UrlParses(job[j].options.startUrl)) =>
              /\ fetchLog[j] = <<>>
              /\ job[j].status # "completed"
              /\ exec[j] = "done" => job[j].status = "failed"
        /\ (Created(j) /\ UrlParses(job[j].options.startUrl)) =>
              /\ job[j].status # "failed"
              /\ exec[j] = "done" => job[j].status = "completed"

\* one job failed on an unparsable seed; another completed although every fetch of it failed
C10_Witness ==
    \E j, k \in Tasks :
        /\ job[j].status = "failed"
        /\ job[j].options.startUrl = BadUrl
        /\ job[k].status = "completed"
        /\ job[k].result[1].pages = <<>>
        /\ job[k].result[1].errors # <<>>

\* C11: every Job a reader obtains is consistent: the record getJobResult
\* returns has a result iff its status is completed; the record and the
\* snapshot getJobStatus returns have an error iff the status is failed and
\* an endTime iff the status is completed or failed.
C11_ConsistentJob ==
    \A j \in jobs :
        LET r == getJobResult(j)
            s == getJobStatus(j)
        IN  /\ (r.result # <<>>) <=> (r.status = "completed")
            /\ (r.error # "") <=> (r.status = "failed")
            /\ (r.endTime # 0) <=> (r.status \in TerminalStatus)
            /\ s.status = r.status
            /\ (s.error # "") <=> (s.status = "failed")
            /\ (s.endTime # 0) <=> (s.status \in TerminalStatus)

\* a reader finds one job completed with its result while another job is still running
C11_Witness ==
    \E j, k \in jobs :
        /\ getJobResult(j).status = "completed"
        /\ getJobResult(j).result # <<>>
        /\ getJobStatus(k).status = "running"
        /\ getJobStatus(k).endTime = 0
        /\ task[k].pages # <<>>

\* C12: cleanupOldJobs(maxAge) removes exactly the stored jobs that are
\* completed or failed with an endTime more than maxAge before now, returns
\* how many it removed, and leaves every pending or running job stored.
C12_CleanupExact ==
    [][\A maxAgeMs \in 0..MaxAge :
          CleanupOldJobs(maxAgeMs) =>
              /\ jobs' = { j \in jobs : ~(job[j].status \in TerminalStatus
                                            /\ now - job[j].endTime > maxAgeMs) }
              /\ cleaned' = Cardinality(jobs \ jobs')
              /\ \A j \in jobs : job[j].status \in {"pending", "running"} => j \in jobs'
              /\ job' = job]_vars

\* a cleanup removed one old finished job and kept a running one
C12_Witness ==
    /\ cleaned = 1
    /\ \E j \in jobs : job[j].status = "running" /\ job[j].startTime < now
    /\ \E k \in Tasks \ jobs : job[k].status \in TerminalStatus /\ now - job[k].endTime > 0

\* C13: what getJobStatus and getJobResult return are copies: a caller that
\* writes to a Job it was given changes nothing of what later getJobStatus
\* and getJobResult calls for that id return.
C13_ReturnedJobsAreCopies ==
    [][\A j \in Tasks :
          CallerWrites(j) =>
              /\ getJobResult(j)' = getJobResult(j)
              /\ getJobStatus(j)' = getJobStatus(j)]_vars

\* what the code does keep: a write to a field of the snapshot itself stays with the caller
C13_SnapshotFieldsAreCopies ==
    [][\A j \in Tasks :
          CallerWritesSnapshot(j) =>
              /\ getJobResult(j)' = getJobResult(j)
              /\ getJobStatus(j)' = getJobStatus(j)]_vars

\* C14 as claimed: when the crawl has returned, every URL that was dequeued
\* and added to Visited but is absent from pages has an entry in errors with
\* a message and a timestamp.
HasErrorEntry(errors, u) ==
    \E i \in 1..Len(errors) :
        errors[i].url = u /\ errors[i].error # "" /\ errors[i].timestamp # 0

C14_SkippedAndFailedInErrors ==
    Returned =>
        \A u \in Engine.visited \ PageUrls(Engine.result.pages) :
            HasErrorEntry(Engine.result.errors, u)

\* C14 amended: when the crawl has returned, every URL whose fetch or parse
\* failed (fetched but absent from pages) has an entry in errors with a
\* message and a timestamp, and a URL the rules check skipped (visited, never
\* fetched) has none.
C14_FailedInErrors ==
    Returned =>
        /\ \A u \in SeqElems(fetchLog[1]) \ PageUrls(Engine.result.pages) :
               HasErrorEntry(Engine.result.errors, u)
        /\ \A u \in Engine.visited \ SeqElems(fetchLog[1]) :
               u \notin ErrorUrls(Engine.result.errors)
        /\ Len(Engine.result.errors) = Engine.metrics.errors

\* a returned crawl that skipped one URL by the rules and failed to fetch another
C14_Witness ==
    /\ Returned
    /\ Engine.visited \ SeqElems(fetchLog[1]) # {}
    /\ Engine.result.errors # <<>>
    /\ Engine.result.pages # <<>>

\* C15: while a job is running, a poll shows its progress: getJobStatus
\* reports the pagesScraped, linksDiscovered and errors counts the engine has
\* reached for that job so far.
C15_ProgressWhileRunning ==
    \A j \in jobs :
        (active = 0 /\ creating = 0 /\ getJobStatus(j).status = "running") =>
            /\ getJobStatus(j).metrics.pagesScraped = task[j].metrics.pagesScraped
            /\ getJobStatus(j).metrics.linksDiscovered = task[j].metrics.linksDiscovered
            /\ getJobStatus(j).metrics.errors = task[j].metrics.errors

\* what the code does: a running job reports the metrics it was created with
C15_ZerosWhileRunning ==
    \A j \in jobs : getJobStatus(j).status = "running" => getJobStatus(j).metrics = NewMetrics

\* C16: when a job has completed, its metrics.currentDepth is the maximum
\* depth the crawl reached, as the engine's MetricsTracker holds it.
C16_CompletedDepth ==
    \A j \in jobs :
        getJobStatus(j).status = "completed" =>
            getJobStatus(j).metrics.currentDepth = task[j].metrics.currentDepth

\* what the code does: a completed job reports currentDepth 0
C16_CompletedDepthZero ==
    \A j \in jobs :
        getJobStatus(j).status = "completed" => getJobStatus(j).metrics.currentDepth = 0

\* C17: normalizeUrl is idempotent: normalizing the result of normalizeUrl(u)
\* again gives the same URL, for every valid u, paths ending in several
\* slashes included.
C17_Idempotent ==
    norm.nna # NoUrl => norm.nna = norm.na

\* what the code does: idempotent on every URL whose path ends in at most one slash
C17_IdempotentOneSlash ==
    (norm.nna # NoUrl /\ norm.a.tslash <= 1) => norm.nna = norm.na

\* C18: normalizeUrl lowercases host and path as in the documented example:
\* https://Example.COM/Page?b=2&a=1#x gives https://example.com/page?a=1&b=2
\* and https://Example.COM/Page gives https://example.com/page.
ExampleUrl ==
    MkFullUrl("abs", "https", ExampleHost, 0, "Page", 0, <<Entry("b", "2"), Entry("a", "1")>>, TRUE)
ExampleNormalized ==
    MkFullUrl("abs", "https", HostName("example.com"), 0, "page", 0,
              <<Entry("a", "1"), Entry("b", "2")>>, FALSE)
C18_LowercaseExample ==
    /\ (norm.a = ExampleUrl /\ norm.na # NoUrl) => norm.na = ExampleNormalized
    /\ (norm.a = [ExampleUrl EXCEPT !.query = <<>>, !.frag = FALSE] /\ norm.na # NoUrl) =>
            norm.na = [ExampleNormalized EXCEPT !.query = <<>>]

\* what the code does: the host is lowercased, the path keeps its case
C18_HostOnlyLowercased ==
    (norm.a = ExampleUrl /\ norm.na # NoUrl) => norm.na = [ExampleNormalized EXCEPT !.path = "Page"]

\* C19: normalizeUrl gives the same URL for two valid URLs that differ only
\* in the letter case of scheme or host, a fragment, an explicit default
\* port, one trailing slash on a non-root path, or the order of query
\* parameters with distinct keys; parameters with equal keys keep their
\* relative order.
WithKey(q, k) == SelectSeq(q, LAMBDA e : e.key = k)
C19_SameNormalForm ==
    /\ norm.nb # NoUrl => norm.nb = norm.na
    /\ norm.na # NoUrl =>
          \A k \in {"a", "b"} : WithKey(norm.na.query, k) = WithKey(norm.a.query, k)

\* two URLs that differ in all the ways listed were given the same normal form,
\* and one with two values of the same key kept them in order behind a sort
C19_Witness ==
    /\ norm.nb # NoUrl
    /\ norm.a.scheme # norm.b.scheme /\ norm.a.host # norm.b.host
    /\ norm.a.port # norm.b.port /\ norm.a.tslash # norm.b.tslash
    /\ norm.a.query # norm.b.query /\ norm.a.frag # norm.b.frag
    /\ norm.na.query # norm.a.query

\* C20: during batchScrape the operations in flight (started, their
\* scrapeSingleUrl not yet returned) never number more than concurrency, and
\* the pool never waits for operations none of which has ended while input
\* URLs are unstarted and a slot is free: every slot an ended operation gave
\* back is refilled before the pool waits again.
InFlight == { i \in DOMAIN batch.op : batch.op[i].st = "fetching" }
Ended == { i \in DOMAIN batch.op : batch.op[i].st = "removed" }
C20_BoundedPool ==
    /\ Cardinality(InFlight) <= batch.concurrency
    /\ InFlight \subseteq batch.executing
    /\ batch.executing \cap Ended = {}
    /\ (batch.pc = "wait" /\ batch.race \cap Ended = {}) =>
          /\ batch.executing = batch.race
          /\ \/ batch.queue = <<>>
             \/ Cardinality(batch.executing) = batch.concurrency

\* an operation has failed and ended while a URL was unstarted, the pool has
\* started that URL in its slot and waits again with every slot taken
C20_Witness ==
    /\ batch.pc = "wait"
    /\ \E i \in Ended : ~batch.op[i].out.success
    /\ batch.race \cap Ended = {}
    /\ batch.queue = <<>>
    /\ Cardinality(InFlight) = batch.concurrency
    /\ batch.concurrency >= 2

\* C21: when batchScrape has returned, there is exactly one outcome per input
\* URL, whatever the order of completion: |results| + |errors| = |urls| =
\* stats.total, stats.success = |results|, stats.failed = |errors|, and the
\* outcome of every operation, failed or not, is in results or errors once.
BatchReturned == batch.pc = "returned"
CountIn(q, x) == Cardinality({ k \in 1..Len(q) : q[k] = x })
C21_OneOutcomePerUrl ==
    BatchReturned =>
        LET r == batch.result
        IN  /\ Len(r.results) + Len(r.errors) = Len(batch.urls)
            /\ r.stats.total = Len(batch.urls)
            /\ r.stats.success = Len(r.results)
            /\ r.stats.failed = Len(r.errors)
            /\ \A k \in 1..Len(r.results) : r.results[k].success
            /\ \A k \in 1..Len(r.errors) : ~r.errors[k].success
            /\ \A i \in DOMAIN batch.op :
                   CountIn(r.results \o r.errors, batch.op[i].out) =
                   Cardinality({ k \in DOMAIN batch.op : batch.op[k].out = batch.op[i].out })

\* a batch returned in which the first URL failed, a later one succeeded and
\* the outcomes came in another order than the input
C21_Witness ==
    /\ BatchReturned
    /\ Len(batch.urls) >= 3
    /\ ~batch.op[1].out.success
    /\ batch.result.results # <<>>
    /\ batch.results[1] # batch.op[1].out
    /\ batch.result.stats.failed >= 1

\* C22: when batchScrape has returned, every input URL string has an entry in
\* results or in errors whose url field equals that string.
C22_MatchByUrl ==
    BatchReturned =>
        \A i \in 1..Len(batch.urls) :
            \E k \in 1..Len(batch.result.results \o batch.result.errors) :
                (batch.result.results \o batch.result.errors)[k].url = batch.urls[i]

\* what the code does: a failed URL is keyed by the input string, a scraped
\* one by its normal form
C22_MatchByNormalForm ==
    BatchReturned =>
        \A i \in 1..Len(batch.urls) :
            \/ \E k \in 1..Len(batch.result.errors) : batch.result.errors[k].url = batch.urls[i]
            \/ /\ UrlParses(batch.urls[i])
               /\ \E k \in 1..Len(batch.result.results) :
                     batch.result.results[k].url = normalizeUrl(batch.urls[i])

\* ------------------------------------------------------------------ RobotsChecker calls
\* the lines a served robots.txt is made of
Star == Line("User-agent", <<"*">>)
LineSet ==
    { Star, Line("User-agent", <<"Googlebot">>),
      Line("Disallow", <<"/", "private">>), Line("Allow", <<"/", "private", "/", "public">>),
      Line("Disallow", <<>>), Line("Disallow", <<"/", "private", "/", "*">>) }

\* Disallow /private with Allow /private/public, for every user agent
ExampleRobotsTxt ==
    <<Star, Line("Disallow", <<"/", "private">>), Line("Allow", <<"/", "private", "/", "public">>)>>

ServedSet ==
    { [kind |-> "html", lines |-> l] : l \in SeqsUpTo(LineSet, MaxLines) }
        \cup { [kind |-> "plain", lines |-> ExampleRobotsTxt], NoServed }

\* the URLs isAllowed is asked about
RobotsUrls ==
    { HttpUrl(HostA, p) : p \in {"", "private/secret", "private/public/x", "privateer"} }
        \cup { BadUrl }

RobotsInit ==
    /\ CrawlIdle
    /\ cleaned = 0
    /\ held = NoJob
    /\ norm = NormIdle
    /\ batch = BatchIdle
    /\ ruled = RulesIdle
    /\ \E served \in ServedSet : robots = [RobotsIdle EXCEPT !.served = served]

RobotsFrame == UNCHANGED <<active, task, fetchLog, dequeueLog, web, jobVars, cleaned, held, norm, batch, ruled>>

cacheIsFresh(cache, t) == cache # <<>> /\ t - cache[1].timestamp < CACHE_TTL

\* isAllowed(url) up to its first await: a URL that does not parse is caught
\* and answered true; a fresh cache entry answers at once; otherwise getRules
\* awaits the fetch of robots.txt
IsAllowed(u) ==
    /\ robots.pc \in {"idle", "done"}
    /\ robots.calls < MaxCalls
    /\ LET called == [robots EXCEPT !.url = u, !.userAgent = "DeepCrawler",
                                    !.calls = @ + 1, !.failed = FALSE, !.ret = "none"]
       IN  IF ~UrlParses(u)
           THEN robots' = [called EXCEPT !.pc = "done", !.ret = "true", !.failed = TRUE]
           ELSE IF cacheIsFresh(robots.cache, now)
           THEN robots' = [called EXCEPT
                    !.pc = "done",
                    !.ret = IF isPathAllowed(pathname(NewURL(u)) \o search(NewURL(u)),
                                             findApplicableRules(robots.cache[1].rules, "DeepCrawler"))
                            THEN "true" ELSE "false"]
           ELSE robots' = [called EXCEPT !.pc = "fetch"]
    /\ UNCHANGED now
    /\ RobotsFrame

\* the fetcher returns whatever the content type of the answer is
fetchReturns_AnyContentType(served, ok) == ok /\ served.kind # "down"

\* fetch returns its result only for an answer whose content type is HTML;
\* for any other answer, and when the request fails, it throws
fetchReturns(served, ok) == ok /\ served.kind = "html"

\* the fetch of robots.txt settles: a body with an HTML content type is
\* parsed and cached; any other outcome makes the fetcher throw, and getRules
\* caches and returns the default rules
RobotsFetchSettles(ok) ==
    /\ robots.pc = "fetch"
    /\ LET fetched == fetchReturns(robots.served, ok)
           rules == IF fetched THEN parseRobotsTxt(robots.served.lines) ELSE defaultRules
           u == NewURL(robots.url)
       IN  robots' = [robots EXCEPT
               !.pc = "done",
               !.failed = ~fetched,
               !.cache = <<[rules |-> rules, timestamp |-> now]>>,
               !.ret = IF isPathAllowed(pathname(u) \o search(u),
                                        findApplicableRules(rules, robots.userAgent))
                       THEN "true" ELSE "false"]
    /\ UNCHANGED now
    /\ RobotsFrame

\* Date.now() moves on, to the last millisecond before or the first
\* millisecond at a full life of a cache entry
RobotsTick ==
    /\ \E t \in { 1 + h * CACHE_TTL - e : h \in 1..MaxHours, e \in {0, 1} } :
          /\ t > now
          /\ now' = t
    /\ UNCHANGED robots
    /\ RobotsFrame

RobotsNext ==
    \/ \E u \in RobotsUrls : IsAllowed(u)
    \/ \E ok \in BOOLEAN : RobotsFetchSettles(ok)
    \/ RobotsTick

RobotsSpec == RobotsInit /\ [][RobotsNext]_vars

\* the rule block the last isAllowed call judged the path by
RobotsDone == robots.pc = "done"
AppliedRule == findApplicableRules(robots.cache[1].rules, robots.userAgent)
AskedPath == pathname(NewURL(robots.url)) \o search(NewURL(robots.url))

\* the rules of the example: Disallow /private with Allow /private/public
ExampleRules ==
    <<RobotsRule("*", << <<"/", "private", "/", "public">> >>, << <<"/", "private">> >>)>>

\* a pattern is a prefix of the path, after one * at its end is dropped
IsPrefixPattern(path, pattern) ==
    LET stem == IF pattern # <<>> /\ pattern[Len(pattern)] = "*"
                THEN SubSeq(pattern, 1, Len(pattern) - 1) ELSE pattern
    IN  Len(stem) <= Len(path) /\ \A k \in 1..Len(stem) : path[k] = stem[k]

\* C23: isAllowed answers true for a path that some Allow pattern of the
\* applicable rule block matches, whatever the Disallow patterns are; false
\* for a path no Allow pattern matches and some Disallow pattern matches;
\* true for every other path.  Under Disallow /private with Allow
\* /private/public, /private/secret is blocked and /private/public/x is not.
C23_AllowWinsOverDisallow ==
    (RobotsDone /\ UrlParses(robots.url)) =>
        /\ robots.cache # <<>>
        /\ LET allowed == \E k \in 1..Len(AppliedRule.allow) :
                              IsPrefixPattern(AskedPath, AppliedRule.allow[k])
               blocked == \E k \in 1..Len(AppliedRule.disallow) :
                              IsPrefixPattern(AskedPath, AppliedRule.disallow[k])
           IN  robots.ret = IF allowed THEN "true" ELSE IF blocked THEN "false" ELSE "true"
        /\ robots.cache[1].rules = ExampleRules =>
              /\ robots.url = HttpUrl(HostA, "private/secret") => robots.ret = "false"
              /\ robots.url = HttpUrl(HostA, "private/public/x") => robots.ret = "true"

\* /private/public/x was asked about under the example robots.txt and allowed
C23_Witness ==
    /\ RobotsDone
    /\ robots.cache # <<>>
    /\ robots.cache[1].rules = ExampleRules
    /\ robots.url = HttpUrl(HostA, "private/public/x")
    /\ robots.ret = "true"

\* /private/secret was asked about under the example robots.txt and blocked
C23_WitnessBlocked ==
    /\ RobotsDone
    /\ robots.cache # <<>>
    /\ robots.cache[1].rules = ExampleRules
    /\ robots.url = HttpUrl(HostA, "private/secret")
    /\ robots.ret = "false"

\* C24: an isAllowed call in which the URL did not parse, or in which
\* robots.txt could not be fetched, returns true; it never returns false and
\* never ends without a return value.
C24_FailsOpen ==
    (RobotsDone /\ robots.failed) => robots.ret = "true"

\* the fetch of a robots.txt that blocks /private/secret failed, and the call
\* about /private/secret returned true
C24_Witness ==
    /\ RobotsDone
    /\ robots.failed
    /\ robots.served = [kind |-> "html", lines |-> ExampleRobotsTxt]
    /\ robots.url = HttpUrl(HostA, "private/secret")
    /\ robots.ret = "true"

\* a call with a URL that does not parse returned true
C24_WitnessBadUrl ==
    /\ RobotsDone
    /\ robots.failed
    /\ robots.url = BadUrl
    /\ robots.ret = "true"

\* what isAllowed(u) returns once the robots.txt of the site has been fetched
RobotsAllows(u) ==
    \/ ~UrlParses(u)
    \/ robots.served.kind # "html"
    \/ isPathAllowed(pathname(NewURL(u)) \o search(NewURL(u)),
                     findApplicableRules(parseRobotsTxt(robots.served.lines), "DeepCrawler"))

\* C25: the crawl fetches no URL for which the Robots Checker's isAllowed
\* returns false.
C25_NeverFetchesDisallowed ==
    \A k \in 1..Len(fetchLog[1]) : RobotsAllows(fetchLog[1][k])

\* ------------------------------------------------------------------ order and ends of the crawl (CrawlSpec)
NonDecreasing(q) == \A i, k \in 1..Len(q) : i <= k => q[i] <= q[k]
Depths(q) == [k \in 1..Len(q) |-> q[k].depth]
IsPrefix(p, q) == Len(p) <= Len(q) /\ SubSeq(q, 1, Len(p)) = p

\* C26: the crawl is breadth-first.  A fetch is issued at a depth no smaller
\* than the depth of any fetch before it, and result.pages is in
\* non-decreasing depth order.  The queue is first-in first-out: an item is
\* added behind the items it holds, the item taken is the one at its front,
\* and it is gone from the queue once taken.
C26_BreadthFirst ==
    [][/\ NonDecreasing(Depths(task[1].pages'))
       /\ fetchLog'[1] # fetchLog[1] =>
             /\ task[1].metrics.currentDepth <= task[1].current.depth
             /\ \A k \in 1..Len(task[1].pages) : task[1].pages[k].depth <= task[1].current.depth
             /\ \A k \in 1..Len(task[1].queue) : task[1].current.depth <= task[1].queue[k].depth
       /\ \/ /\ IsPrefix(task[1].queue, task[1].queue')
             /\ dequeueLog' = dequeueLog
          \/ /\ task[1].queue # <<>>
             /\ task[1].queue' = Tail(task[1].queue)
             /\ dequeueLog'[1] = Append(dequeueLog[1], Head(task[1].queue).url)
      ]_vars

\* the crawl fetched at depths 0, 1 and 2, and the second page put items
\* behind one that was still waiting
C26_Witness ==
    /\ Len(task[1].pages) >= 2
    /\ task[1].pages[1].depth = 0
    /\ task[1].pages[2].depth = 1
    /\ task[1].pc = "fetch"
    /\ task[1].current.depth = 2
    /\ Len(task[1].queue) >= 1

\* C27: no URL is fetched twice in one crawl, every URL a fetch was issued
\* for is in the Visited set, and while a fetch is awaited its URL, the last
\* of the fetch log, is already in Visited.
C27_FetchedOnce ==
    /\ \A i, k \in 1..Len(fetchLog[1]) : i # k => fetchLog[1][i] # fetchLog[1][k]
    /\ SeqElems(fetchLog[1]) \subseteq Engine.visited
    /\ Engine.pc = "fetch" =>
          /\ Engine.current.url \in Engine.visited
          /\ fetchLog[1] # <<>>
          /\ fetchLog[1][Len(fetchLog[1])] = Engine.current.url

\* a second fetch is awaited after some URL came out of the queue a second
\* time and was passed over
C27_Witness ==
    /\ Engine.pc = "fetch"
    /\ Len(fetchLog[1]) >= 2
    /\ \E i, k \in 1..Len(dequeueLog[1]) : i # k /\ dequeueLog[1][i] = dequeueLog[1][k]

AtPageLimit(e) == e.pc # "idle" /\ e.metrics.pagesScraped = e.options.maxPages

\* C28: once pagesScraped equals maxPages the loop is over: the crawl stands
\* at the limit check or past the loop, and no step from there on takes an
\* item from the queue, adds one, or issues a fetch, whatever the queue holds.
C28_StopAtPageLimit ==
    [][/\ AtPageLimit(Engine') => Engine.pc' \in {"limit", "finish", "resolved"}
       /\ AtPageLimit(Engine) =>
             /\ dequeueLog' = dequeueLog
             /\ fetchLog' = fetchLog
             /\ Engine.queue' = Engine.queue
             /\ Engine.pages' = Engine.pages
      ]_vars

\* the crawl returned at the page limit with items left in the queue
C28_Witness ==
    /\ Returned
    /\ AtPageLimit(Engine)
    /\ Engine.queue # <<>>
    /\ Engine.options.maxPages >= 2

CrawlEnded == Engine.pc \in {"resolved", "rejected"}

\* C29: every crawl() call ends, whatever the links of the pages are (to the
\* seed, to the page itself, repeated) and for every maxDepth >= 1 and
\* maxPages >= 1, when every fetch returns or fails; a call whose start URL
\* parses ends by returning its CrawlResult.
C29_CrawlTerminates ==
    /\ <>CrawlEnded
    /\ UrlParses(Engine.options.startUrl) => <>Returned

\* a crawl returned after a page linked back to the seed and to itself, both
\* of which came out of the queue again
C29_Witness ==
    /\ Returned
    /\ Len(Engine.result.pages) >= 2
    /\ \E k \in 2..Len(dequeueLog[1]) : dequeueLog[1][k] = dequeueLog[1][1]
    /\ \E i, k \in 2..Len(dequeueLog[1]) : i # k /\ dequeueLog[1][i] = dequeueLog[1][k]

\* the entries of pages and of errors that have the URL u
EntriesFor(e, u) ==
    Cardinality({ k \in 1..Len(e.pages) : e.pages[k].url = u })
        + Cardinality({ k \in 1..Len(e.errors) : e.errors[k].url = u })

\* C30: a URL that was dequeued, was not in Visited and passed shouldCrawl
\* had a fetch issued for it, and once that fetch has settled it has exactly
\* one entry, in pages or in errors; the fetches issued are as many as
\* pages and errors together, counting the one still awaited, and the errors
\* metric equals the length of errors.  The returned result holds these
\* pages and errors.
C30_PageOrError ==
    /\ \A u \in SeqElems(fetchLog[1]) :
          EntriesFor(Engine, u) = IF Engine.pc = "fetch" /\ Engine.current.url = u THEN 0 ELSE 1
    /\ Len(fetchLog[1]) =
          Len(Engine.pages) + Len(Engine.errors) + (IF Engine.pc = "fetch" THEN 1 ELSE 0)
    /\ Engine.metrics.errors = Len(Engine.errors)
    /\ Engine.metrics.pagesScraped = Len(Engine.pages)
    /\ Returned =>
          /\ Engine.result.pages = Engine.pages
          /\ Engine.result.errors = Engine.errors
          /\ Len(fetchLog[1]) = Len(Engine.result.pages) + Len(Engine.result.errors)

\* a crawl returned with a page, an error, and a dequeued URL that the rules
\* turned away and that has no entry
C30_Witness ==
    /\ Returned
    /\ Engine.result.pages # <<>>
    /\ Engine.result.errors # <<>>
    /\ \E u \in SeqElems(dequeueLog[1]) :
          u \notin SeqElems(fetchLog[1]) /\ EntriesFor(Engine, u) = 0

\* the items the crawl holds: those waiting in the queue and the one dequeued
\* and in work
HeldItems(e) ==
    SeqElems(e.queue) \cup (IF e.pc \in {"rules", "fetch", "limit"} THEN {e.current} ELSE {})

\* C31: every item in the queue, and the item dequeued, has depth < maxDepth.
\* An item of depth 0 is the seed: the normalized start URL without a parent.
\* An item of depth d > 0 has as parentUrl the URL of a page scraped at depth
\* d - 1 whose links hold the item's URL, and d < maxDepth.  So the depth
\* test of the rules passes for every item dequeued.
C31_QueueDepthBound ==
    /\ \A it \in HeldItems(Engine) :
          /\ it.depth >= 0
          /\ it.depth < Engine.options.maxDepth
          /\ it.depth = 0 =>
                /\ it.parentUrl = NoUrl
                /\ it.url = normalizeUrl(Engine.options.startUrl)
          /\ it.depth > 0 =>
                \E k \in 1..Len(Engine.pages) :
                    /\ Engine.pages[k].url = it.parentUrl
                    /\ Engine.pages[k].depth + 1 = it.depth
                    /\ it.url \in SeqElems(Engine.pages[k].links)
    /\ Engine.pc = "rules" => shouldCrawlDepth(Engine.options, Engine.current.depth)

\* an item of depth 2 waits in the queue of a crawl with maxDepth 3, and a
\* page of depth 2 was scraped whose links were not enqueued
C31_Witness ==
    /\ Engine.options.maxDepth = 3
    /\ \E k \in 1..Len(Engine.queue) : Engine.queue[k].depth = 2
    /\ \E k \in 1..Len(Engine.pages) :
          Engine.pages[k].depth = 2 /\ Engine.pages[k].links # <<>>

\* ------------------------------------------------------------------ CrawlRules calls
\* the hosts of the URLs shouldCrawl is asked about: names, IPv4 literals in
\* and out of the private ranges, and the IPv6 loopback, whose hostname the
\* URL object gives in brackets
Ipv6Loopback == HostName("[::1]")
RuleUrls ==
    { HttpUrl(h, "") : h \in
    { HostA, HostB, HostName("localhost"), Ipv6Loopback,
      HostIp(127, 0, 0, 1), HostIp(127, 0, 0, 2), HostIp(127, 1, 2, 3), HostIp(10, 0, 0, 5),
      HostIp(172, 16, 0, 1), HostIp(172, 31, 0, 1), HostIp(172, 32, 0, 1),
      HostIp(192, 168, 1, 1), HostIp(169, 254, 0, 1), HostIp(8, 8, 8, 8) } }
        \cup { BadUrl }

RulesInit ==
    /\ CrawlIdle
    /\ cleaned = 0
    /\ held = NoJob
    /\ norm = NormIdle
    /\ batch = BatchIdle
    /\ robots = RobotsIdle
    /\ ruled = RulesIdle

RulesFrame == UNCHANGED <<crawlVars, jobVars, cleaned, held, norm, batch, robots>>

\* new CrawlRules(options): getDomain of the start URL throws when it does not parse
NewCrawlRules(o) ==
    /\ ruled.pc = "idle"
    /\ IF getDomainThrows(o.startUrl)
       THEN ruled' = [ruled EXCEPT !.pc = "threw", !.options = o]
       ELSE ruled' = [ruled EXCEPT !.pc = "built", !.options = o,
                                   !.baseDomain = getDomain(o.startUrl)]
    /\ RulesFrame

\* rules.shouldCrawl(url, depth, pagesScraped)
ShouldCrawl(u, depth, pagesScraped) ==
    /\ ruled.pc = "built"
    /\ ruled' = [ruled EXCEPT
            !.pc = "done", !.url = u, !.depth = depth, !.pagesScraped = pagesScraped,
            !.ret = shouldCrawl(ruled.options, ruled.baseDomain, u, depth, pagesScraped)]
    /\ RulesFrame

RulesNext ==
    \/ \E o \in CrawlOptionSet : NewCrawlRules(o)
    \/ \E u \in RuleUrls, depth \in 0..MaxDepthOpt, pagesScraped \in 0..MaxPagesOpt :
          ShouldCrawl(u, depth, pagesScraped)

RulesSpec == RulesInit /\ [][RulesNext]_vars

RulesDone == ruled.pc = "done"

\* C32: shouldCrawl returns false for every URL that does not parse, under
\* strategy domain and under strategy all, whatever the depth and the page count.
C32_FailsClosed ==
    (RulesDone /\ ~UrlParses(ruled.url)) => ~ruled.ret

\* what the code does: an unparsable URL is turned away under strategy
\* domain, and under strategy all it passes whenever depth and page count do
C32_FailsClosedUnderDomainOnly ==
    (RulesDone /\ ~UrlParses(ruled.url)) =>
        (ruled.ret <=> /\ ruled.options.strategy = "all"
                       /\ ruled.depth < ruled.options.maxDepth
                       /\ ruled.pagesScraped < ruled.options.maxPages)

\* the hosts the specification names as private: 127.0.0.0/8 and ::1,
\* 10.0.0.0/8, 172.16.0.0/12, 192.168.0.0/16, 169.254.0.0/16
InPrivateRange(h) ==
    \/ h = Ipv6Loopback
    \/ /\ Len(h.ip) = 4
       /\ \/ h.ip[1] = 127
          \/ h.ip[1] = 10
          \/ h.ip[1] = 172 /\ h.ip[2] >= 16 /\ h.ip[2] <= 31
          \/ h.ip[1] = 192 /\ h.ip[2] = 168
          \/ h.ip[1] = 169 /\ h.ip[2] = 254

\* C33: shouldCrawl returns false for every URL whose host is an IPv4 literal
\* in 127.0.0.0/8, 10.0.0.0/8, 172.16.0.0/12, 192.168.0.0/16 or
\* 169.254.0.0/16, or the IPv6 loopback, whatever depth, page count and strategy.
C33_PrivateRangesBlocked ==
    (RulesDone /\ UrlParses(ruled.url) /\ InPrivateRange(ruled.url.host)) => ~ruled.ret

\* what the code does: of the loopback addresses only the literal 127.0.0.1 is blocked
C33_PrivateRangesButLoopback ==
    (RulesDone /\ UrlParses(ruled.url) /\ InPrivateRange(ruled.url.host)
        /\ ruled.url.host # Ipv6Loopback
        /\ (ruled.url.host.ip[1] = 127 => ruled.url.host = Loopback)) => ~ruled.ret

RECURSIVE LinkCount(_)
LinkCount(pages) ==
    IF pages = <<>> THEN 0 ELSE Len(pages[1].links) + LinkCount(Tail(pages))

Resolvable(rawLinks, baseUrl) == SelectSeq(rawLinks, LAMBDA h : ~resolveUrlThrows(baseUrl, h))

\* C35: when a fetched page has raw links that do not resolve, the page is
\* appended to pages with exactly the links its other raw links give, no
\* CrawlError is recorded, the errors metric stays, and the crawl goes on to
\* the limit check.
C35_BadLinksDropped ==
    [][\A rawLinks \in BrokenRawLinks :
          CrawlPageScraped(1, rawLinks) =>
              LET c == Engine.current
              IN  /\ Engine.pages' =
                        Append(Engine.pages,
                               PageData(c.url, extractLinks(Resolvable(rawLinks, c.url), c.url),
                                        c.depth, now))
                  /\ BadUrl \notin SeqElems(Engine.pages'[Len(Engine.pages')].links)
                  /\ Engine.errors' = Engine.errors
                  /\ Engine.metrics.errors' = Engine.metrics.errors
                  /\ Engine.pc' = "limit"
      ]_vars

\* in the web where every page has a broken link, two pages were scraped with
\* links of their own and no error was recorded
C35_Witness ==
    /\ Returned
    /\ Len(Engine.result.pages) >= 2
    /\ \A k \in 1..Len(Engine.result.pages) : Engine.result.pages[k].links # <<>>
    /\ Engine.result.errors = <<>>

\* ------------------------------------------------------------------ jobs side by side (Spec)
\* the locals of the crawl() call of job j, and the steps that are its own
CrawlLocals(j) == <<task[j], fetchLog[j], dequeueLog[j]>>
OwnCrawlStep(j) == ExecuteCrawlStart(j) \/ JobCrawlStep(j) \/ JobFetchSettles(j)
OwnJobStep(j) ==
    \/ j = nextId /\ \E o \in JobOptionSet : CreateJob(o)
    \/ ExecuteCrawlStart(j)
    \/ ExecuteCrawlCompleted(j)
    \/ ExecuteCrawlFailed(j)

\* C36: the Visited set, the queue, the counters, the pages and the errors
\* of a job change only in steps of that job's own crawl, and its Job record
\* only in its own createJob and executeCrawl; the result stored for a
\* completed job is the result of its own crawl, with its own pages, errors
\* and counts.  No step of another job, and no createJob, status or result
\* call, changes them.
C36_JobsDoNotInterfere ==
    [][\A j \in Tasks :
          /\ CrawlLocals(j)' # CrawlLocals(j) => OwnCrawlStep(j)
          /\ job'[j] # job[j] => OwnJobStep(j)
          /\ ExecuteCrawlCompleted(j) =>
                /\ getJobResult(j).result' = <<[task[j].result EXCEPT !.jobId = j]>>
                /\ task[j].result.pages = task[j].pages
                /\ task[j].result.errors = task[j].errors
                /\ task[j].result.pagesScraped = Len(task[j].pages)
                /\ PageUrls(task[j].pages) \cup ErrorUrls(task[j].errors) = SeqElems(fetchLog[j])
                /\ SeqElems(fetchLog[j]) \subseteq task[j].visited
      ]_vars

\* two jobs are crawling at once, each waiting for a fetch, the first with a
\* page already scraped
C36_Witness ==
    /\ exec[1] = "await" /\ exec[2] = "await"
    /\ task[1].pc = "fetch" /\ task[2].pc = "fetch"
    /\ task[1].pages # <<>>
    /\ task[1].visited # task[2].visited

\* C37: once deleteJob(id) has returned true, getJobStatus(id) and
\* getJobResult(id) return notFound in every later state, also when the job
\* was running at the time and its crawl settles afterwards.
Deleted(j) == j < nextId /\ creating # j /\ j \notin jobs
C37_DeletionPermanent ==
    [][\A j \in Tasks :
          Deleted(j) => getJobStatus(j)' = NoJob /\ getJobResult(j)' = NoJob]_vars

\* what the code does: a deleted job stays deleted once its executeCrawl has ended
C37_PermanentOnceSettled ==
    [][\A j \in Tasks :
          (Deleted(j) /\ exec[j] = "done") =>
              getJobStatus(j)' = NoJob /\ getJobResult(j)' = NoJob]_vars

\* C38: every batchScrape call returns, for every list of input URLs and
\* every concurrency >= 1, when each fetch returns or fails; and when it has
\* returned every operation it started has completed: its outcome is
\* pushed, its finally callback has run, and nothing is left executing.
C38_BatchTerminates ==
    /\ <>BatchReturned
    /\ [](BatchReturned =>
            /\ batch.executing = {}
            /\ batch.queue = <<>>
            /\ \A i \in 1..Len(batch.urls) : batch.op[i].st = "removed")

\* a batch of three URLs with concurrency 2 returned, after the pool had to
\* wait for a slot; one URL failed and one was scraped
C38_Witness ==
    /\ BatchReturned
    /\ Len(batch.urls) = 3
    /\ batch.concurrency = 2
    /\ batch.result.stats.failed >= 1
    /\ batch.result.stats.success >= 1

\* C39: when the origin serves its robots.txt as text/plain, the retrieval
\* fails: the entry cached for the origin is the allow-all default, whatever
\* the file says, every isAllowed call for a URL of the origin returns true,
\* and no new retrieval is tried while that entry is fresh.
C39_PlainTextAllowsAll ==
    robots.served.kind = "plain" =>
        /\ (RobotsDone /\ UrlParses(robots.url)) =>
              /\ robots.ret = "true"
              /\ robots.cache # <<>>
              /\ robots.cache[1].rules = defaultRules
        /\ robots.cache # <<>> => robots.cache[1].rules = defaultRules
        /\ robots.pc = "fetch" => ~cacheIsFresh(robots.cache, now)

\* the robots.txt served as text/plain disallows /private; a second call, about
\* /private/secret, was answered true from the cached entry
C39_Witness ==
    /\ RobotsDone
    /\ robots.served = [kind |-> "plain", lines |-> ExampleRobotsTxt]
    /\ robots.url = HttpUrl(HostA, "private/secret")
    /\ robots.calls = 2
    /\ ~robots.failed
    /\ robots.ret = "true"

====
